---- MODULE Spec2Model ----
(***************************************************************************)
(* A model of the neko agent runtime (superhq-ai/neko):                    *)
(*   - the agent turn engine   (src/src/agent/mod.rs)                      *)
(*   - the session store       (src/src/session.rs)                        *)
(*   - the gateway router      (src/src/gateway.rs, src/src/main.rs)       *)
(*   - the process manager     (src/src/tools/process_manager.rs)          *)
(* Each component has its own next-state relation and specification; the   *)
(* variables of the other components stay unchanged under it.              *)
(***************************************************************************)
EXTENDS Integers, Sequences, FiniteSets, TLC

VARIABLES
    \* ---- agent turn engine: one call of run_turn_with_history ----
    a_pc,            \* position in run_turn_with_history
    a_cfg,           \* AgentConfig: max_iterations, max_history
    a_args,          \* the arguments: history, previous_response_id
    a_history,       \* local `history`
    a_iteration,     \* loop variable `iteration`
    a_prev,          \* local `current_prev_id`
    a_pending,       \* local `pending_fc_outputs`
    a_calls,         \* the calls of the current response still to execute
    a_result,        \* what the call returned
    a_requests,      \* log: every llm::Request sent, in order
    a_responses,     \* log: every llm::Response received, in order
    a_produced,      \* log: the FunctionCallOutputs produced, per iteration
    a_outcomes       \* log: what execute_tool returned, per call

agentVars == << a_pc, a_cfg, a_args, a_history, a_iteration, a_prev, a_pending,
                a_calls, a_result, a_requests, a_responses, a_produced,
                a_outcomes >>

VARIABLES
    \* ---- process manager: one spawn_or_yield call and its session ----
    p_cfg,           \* timeout_secs of the call; whether the command ends by itself
    p_phase,         \* position of spawn_or_yield
    p_child,         \* the child process: running, or exited with a code
    p_pipe,          \* lines written to stdout/stderr and not yet read
    p_written,       \* number of lines the child has written
    p_buf,           \* output_buf: the lines appended, each with its byte length
    p_cursor,        \* BackgroundSession::cursor (a byte offset)
    p_exit_status,   \* BackgroundSession::exit_status
    p_child_lock,    \* holder of the BackgroundSession::child mutex
    p_watcher,       \* position of the exit-status watcher task
    p_watchdog,      \* position of the timeout watchdog task
    p_elapsed,       \* seconds since the session was backgrounded
    p_live,          \* whether ProcessManager::sessions holds the session
    p_poller,        \* position of each process-tool call (poll, kill) in flight
    p_polled,        \* log: the slices poll_output returned, in call order
    p_returned       \* what spawn_or_yield returned

procVars == << p_cfg, p_phase, p_child, p_pipe, p_written, p_buf, p_cursor,
               p_exit_status, p_child_lock, p_watcher, p_watchdog, p_elapsed,
               p_live, p_poller, p_polled, p_returned >>

VARIABLES
    \* ---- session store and gateway tasks ----
    s_cfg,           \* SessionConfig and the agent's max_history
    s_clock,         \* Utc::now(), in seconds
    s_sessions,      \* SessionStore::sessions: session id -> Session
    s_key_index,     \* SessionStore::key_index: key -> session id
    s_readers,       \* the tasks holding the read lock of `sessions`
    s_next_id,       \* the next fresh session id (uuid)
    s_transcript,    \* the files <session_id>.jsonl: session id -> lines
    s_archives,      \* the files <session_id>.<timestamp>.jsonl
    s_json,          \* the file sessions.json
    s_tmp,           \* the file sessions.json.tmp
    s_task,          \* each gateway task: its position and locals
    s_ops,           \* number of operations started
    s_turn_no,       \* number of agent turns started (names their items)
    s_appended,      \* log: the items turns appended per session since its
                     \* creation or last reset
    s_reset_lines,   \* log: the transcript lines that were on disk at a reset
    s_serial,        \* whether operations arrive one after another, each
                     \* after the previous one has returned
    s_boot_turn      \* log: the number of turns started before the store
                     \* was last loaded from disk, None for a first start

sessVars == << s_cfg, s_clock, s_sessions, s_key_index, s_readers, s_next_id,
               s_transcript, s_archives, s_json, s_tmp, s_task, s_ops,
               s_turn_no, s_appended, s_reset_lines, s_serial,
               s_boot_turn >>

VARIABLES
    c_now,           \* Utc::now(), in seconds
    c_file,          \* the file cron/jobs.json: a sequence of CronJob
    c_file0,         \* log: jobs.json as the scheduler found it at its start
    c_pc,            \* position of the scheduler task
    c_next_tick,     \* the deadline of the interval's next tick
    c_ticks,         \* number of ticks taken
    c_tick_now,      \* `now` of the tick being processed
    c_updated,       \* updated_jobs of the tick being processed
    c_i,             \* the loop index into updated_jobs
    c_modified,      \* jobs_modified
    c_started,       \* started_at of the run in progress
    c_eval,          \* log: what should_fire last decided, and for which job
    c_log,           \* log: the runs made, in order
    c_added          \* log: the ids of the jobs cron_manage has added

cronVars == << c_now, c_file, c_file0, c_pc, c_next_tick, c_ticks, c_tick_now,
               c_updated, c_i, c_modified, c_started, c_eval, c_log,
               c_added >>

VARIABLES
    f_fs,            \* the file system: absolute path -> directory, file or link
    f_cwd,           \* ToolContext::cwd
    f_last,          \* log: the last tool call, its result, the paths it touched
    f_calls          \* number of tool calls made

toolVars == << f_fs, f_cwd, f_last, f_calls >>

VARIABLES
    j_item,          \* the llm::Item held in memory
    j_json,          \* its JSON form once written, None before
    j_back,          \* what parsing the JSON form gave, None before
    j_loads          \* number of times a parsed item replaced the held one

codecVars == << j_item, j_json, j_back, j_loads >>

VARIABLES
    l_lock,          \* the locks of the SessionStore: who holds each, who waits
    l_task,          \* each task calling the SessionStore: its position
    l_exist,         \* the ids in SessionStore::sessions
    l_index          \* the keys in SessionStore::key_index

lockVars == << l_lock, l_task, l_exist, l_index >>

vars == << agentVars, procVars, sessVars, cronVars, toolVars, codecVars, lockVars >>

(***************************************************************************)
(* Bounds of the model.                                                    *)
(***************************************************************************)
\* largest configured agent.max_iterations explored (0..MaxIter)
MaxIter == 2

\* number of output lines a spawned command writes at most
MaxLines == 2

\* number of process-tool polls made on a background session at most
MaxPolls == 3

\* largest timeout_secs explored (0..MaxTimeout)
MaxTimeout == 1

\* number of gateway operations (messages, deletes, clears) made at most when
\* they arrive one after another
MaxOps == 3

\* number of gateway operations made at most when they may run concurrently
MaxConcurrentOps == 2

\* number of seconds that pass at most while the gateway is observed
MaxTicks == 1

\* number of scheduler ticks taken at most
MaxCronTicks == 3

\* longest agent run of a cron job, in seconds
MaxRunSecs == 1

\* file tool calls made in a run
MaxToolCalls == 2

\* times an item is written, read back and held again
MaxLoads == 1

\* number of tasks that call the SessionStore at the same time
MaxLockTasks == 2

\* the length of a long agent run of a cron job, in seconds
LongRunSecs == 77

\* Option<T>: None is the empty sequence, Some(x) the one-element sequence
None == << >>

Some(x) == << x >>

(***************************************************************************)
(* llm::Item and llm::OutputItem (src/src/llm/types.rs), as records.       *)
(***************************************************************************)
Msg(role, text) ==
    [type |-> "message", role |-> role, call_id |-> 0, text |-> text]

FunctionCall(cid) ==
    [type |-> "function_call", role |-> "none", call_id |-> cid, text |-> "args"]

FunctionCallOutput(cid, out) ==
    [type |-> "function_call_output", role |-> "none", call_id |-> cid, text |-> out]

Reasoning ==
    [type |-> "reasoning", role |-> "none", call_id |-> 0, text |-> "opaque"]

Other ==
    [type |-> "other", role |-> "none", call_id |-> 0, text |-> "opaque"]

\* OutputItem::FunctionCall, ::Message (text = its output_text parts joined),
\* ::Reasoning, ::Other
OutFunctionCall(cid) == [kind |-> "function_call", call_id |-> cid, text |-> "args"]
OutMessage(text)     == [kind |-> "message", call_id |-> 0, text |-> text]
OutReasoning         == [kind |-> "reasoning", call_id |-> 0, text |-> "opaque"]
OutOther             == [kind |-> "other", call_id |-> 0, text |-> "opaque"]

(***************************************************************************)
(* Sequence helpers.                                                       *)
(***************************************************************************)
IsPrefix(p, s) ==
    /\ Len(p) <= Len(s)
    /\ \A i \in 1..Len(p) : p[i] = s[i]

Range(s) == { s[i] : i \in 1..Len(s) }

(***************************************************************************)
(* Pure functions of the agent engine.                                     *)
(***************************************************************************)
\* FunctionCall -> Item::FunctionCall; Message with non-empty text ->
\* Item::Message; Reasoning and Other are skipped.
RECURSIVE append_output_to_history(_, _)
append_output_to_history(history, output) ==
    IF output = << >> THEN history
    ELSE LET item == Head(output)
             h1 == CASE item.kind = "function_call" ->
                           Append(history, FunctionCall(item.call_id))
                     [] item.kind = "message" ->
                           IF item.text # ""
                           THEN Append(history, Msg("assistant", item.text))
                           ELSE history
                     [] OTHER -> history
         IN append_output_to_history(h1, Tail(output))

\* history.drain(0..excess): at most max items, oldest dropped first
trim_history(history, max) ==
    IF Len(history) > max
    THEN SubSeq(history, Len(history) - max + 1, Len(history))
    ELSE history

\* a variant that keeps every item
strip_reasoning_keep_all(history) == history

\* history.retain: Reasoning and Other items are dropped
strip_reasoning(history) ==
    SelectSeq(history, LAMBDA it : it.type \notin {"reasoning", "other"})

\* Response::function_calls: the call ids of the FunctionCall output items, in order
function_calls(output) ==
    LET fcs == SelectSeq(output, LAMBDA o : o.kind = "function_call")
    IN [i \in 1..Len(fcs) |-> fcs[i].call_id]

(***************************************************************************)
(* Agent turn engine: Agent::run_turn_with_history.                        *)
(***************************************************************************)
\* the new user message of the turn
user_item == Msg("user", "hello")

\* the response id a session hands over from its previous turn
StoredResponseId == "resp_prev"

\* histories a session can hand to a turn: empty, a finished plain turn, a
\* finished tool-using turn, a turn loaded from an older transcript that
\* still holds a reasoning item
InitHistories ==
    { << >>,
      << Msg("user", "q0"), Reasoning, Msg("assistant", "a0") >>,
      << Msg("user", "q0"), Msg("assistant", "a0") >>,
      << Msg("user", "q0"), FunctionCall("call_old"),
         FunctionCallOutput("call_old", "out"), Msg("assistant", "a0") >> }

\* agent.max_history settings explored (the default is 100)
MaxHistoryValues == { 2, 3, 100 }

\* the shapes of a model response's output
ResponseShapes ==
    { << >>,
      << "message" >>,
      << "empty_message" >>,
      << "reasoning", "message" >>,
      << "function_call" >>,
      << "function_call", "function_call" >>,
      << "function_call", "message" >>,
      << "message", "function_call" >>,
      << "reasoning", "function_call", "other" >> }

\* the provider's id of the n-th response of the turn
ResponseId(n) == << "resp", n >>

\* the provider's call id of the output item at position p of response n
CallId(n, p) == << "call", n, p >>

\* the output items of response n with the given shape
OutputOf(shape, n) ==
    [p \in 1..Len(shape) |->
        CASE shape[p] = "function_call" -> OutFunctionCall(CallId(n, p))
          [] shape[p] = "message"       -> OutMessage("text")
          [] shape[p] = "empty_message" -> OutMessage("")
          [] shape[p] = "reasoning"     -> OutReasoning
          [] OTHER                      -> OutOther]

\* what loop_runner::execute_tool can return: Ok(result), Ok(result with
\* is_error), Err because the registry has no tool of that name, Err for
\* another reason (invalid arguments, failed execution)
ToolOutcomes == { "ok", "is_error", "unknown_tool", "err" }

\* ToolResult.output of a tool that ran
ResultOutput == "out"

\* Display of the NekoError::Tool that execute_tool returns
ErrorDisplay(outcome) ==
    IF outcome = "unknown_tool"
    THEN "Tool error: Unknown tool: t"
    ELSE "Tool error: Invalid arguments for tool t: e"

\* a variant that passes a flagged result through without the prefix
ToolOutputText_unflagged(outcome) ==
    CASE outcome \in { "ok", "is_error" } -> ResultOutput
      [] OTHER -> "[ERROR] " \o ErrorDisplay(outcome)

\* the `output` text of the FunctionCallOutput for a tool outcome
ToolOutputText(outcome) ==
    CASE outcome = "ok"       -> ResultOutput
      [] outcome = "is_error" -> "[ERROR] " \o ResultOutput
      [] OTHER                -> "[ERROR] " \o ErrorDisplay(outcome)

\* a variant that resends the whole history on tool follow-ups
BuildInput_resend_history(iteration, prev, history, pending) ==
    IF iteration = 0 /\ prev # None THEN << user_item >> ELSE history

\* the model input of an iteration
BuildInput(iteration, prev, history, pending) ==
    IF iteration = 0
    THEN IF prev # None THEN << user_item >> ELSE history
    ELSE pending

AgentInit ==
    /\ a_pc = "start"
    /\ a_cfg \in [max_iterations : 0..MaxIter, max_history : MaxHistoryValues]
    /\ a_args \in [history : InitHistories,
                   previous_response_id : { None, Some(StoredResponseId) }]
    /\ a_history = a_args.history
    /\ a_iteration = 0
    /\ a_prev = a_args.previous_response_id
    /\ a_pending = << >>
    /\ a_calls = << >>
    /\ a_result = "none"
    /\ a_requests = << >>
    /\ a_responses = << >>
    /\ a_produced = << >>
    /\ a_outcomes = << >>

\* the agent when no turn is being examined
AgentIdle ==
    /\ a_pc = "idle"
    /\ a_cfg = [max_iterations |-> 0, max_history |-> 0]
    /\ a_args = [history |-> << >>, previous_response_id |-> None]
    /\ a_history = << >>
    /\ a_iteration = 0
    /\ a_prev = None
    /\ a_pending = << >>
    /\ a_calls = << >>
    /\ a_result = "none"
    /\ a_requests = << >>
    /\ a_responses = << >>
    /\ a_produced = << >>
    /\ a_outcomes = << >>

\* history.push(user_item) and the set-up before the loop
TurnStart ==
    /\ a_pc = "start"
    /\ a_history' = Append(a_history, user_item)
    /\ a_pc' = "loop"
    /\ UNCHANGED << a_cfg, a_args, a_iteration, a_prev, a_pending, a_calls,
                    a_result, a_requests, a_responses, a_produced,
                    a_outcomes >>

\* a variant whose loop runs one pass too many (0..=max_iterations)
SendRequest_inclusive_range ==
    /\ a_pc = "loop"
    /\ a_iteration <= a_cfg.max_iterations
    /\ a_requests' = Append(a_requests,
           [input |-> BuildInput(a_iteration, a_prev, a_history, a_pending),
            previous_response_id |-> a_prev,
            iteration |-> a_iteration])
    /\ a_pending' = IF a_iteration = 0 THEN a_pending ELSE << >>
    /\ a_pc' = "await"
    /\ UNCHANGED << a_cfg, a_args, a_history, a_iteration, a_prev, a_calls,
                    a_result, a_responses, a_produced,
                    a_outcomes >>

\* one pass of `for iteration in 0..max_iterations` up to create_response:
\* build the input (mem::take empties pending_fc_outputs) and send the request
SendRequest ==
    /\ a_pc = "loop"
    /\ a_iteration < a_cfg.max_iterations
    /\ a_requests' = Append(a_requests,
           [input |-> BuildInput(a_iteration, a_prev, a_history, a_pending),
            previous_response_id |-> a_prev,
            iteration |-> a_iteration])
    /\ a_pending' = IF a_iteration = 0 THEN a_pending ELSE << >>
    /\ a_pc' = "await"
    /\ UNCHANGED << a_cfg, a_args, a_history, a_iteration, a_prev, a_calls,
                    a_result, a_responses, a_produced,
                    a_outcomes >>

\* the loop ran out: Err(NekoError::Agent("Agent loop exceeded ..."))
ExceededIterations ==
    /\ a_pc = "loop"
    /\ a_iteration >= a_cfg.max_iterations
    /\ a_result' = "exceeded"
    /\ a_pc' = "done"
    /\ UNCHANGED << a_cfg, a_args, a_history, a_iteration, a_prev, a_pending,
                    a_calls, a_requests, a_responses, a_produced,
                    a_outcomes >>

\* create_response(...).await? fails: the transport error is returned
TransportError ==
    /\ a_pc = "await"
    /\ a_result' = "llm_error"
    /\ a_pc' = "done"
    /\ UNCHANGED << a_cfg, a_args, a_history, a_iteration, a_prev, a_pending,
                    a_calls, a_requests, a_responses, a_produced,
                    a_outcomes >>

\* a response whose status is Failed: Err(NekoError::Llm(..))
ResponseFailed(shape) ==
    /\ a_pc = "await"
    /\ LET n == Len(a_responses) + 1
       IN a_responses' = Append(a_responses,
              [id |-> ResponseId(n), status |-> "failed",
               output |-> OutputOf(shape, n)])
    /\ a_result' = "llm_error"
    /\ a_pc' = "done"
    /\ UNCHANGED << a_cfg, a_args, a_history, a_iteration, a_prev, a_pending,
                    a_calls, a_requests, a_produced,
                    a_outcomes >>

\* a completed response without function calls: the turn returns Ok
ResponseFinal(shape) ==
    /\ a_pc = "await"
    /\ LET n      == Len(a_responses) + 1
           output == OutputOf(shape, n)
       IN /\ function_calls(output) = << >>
          /\ a_responses' = Append(a_responses,
                 [id |-> ResponseId(n), status |-> "completed", output |-> output])
          /\ a_prev' = Some(ResponseId(n))
          /\ a_history' = trim_history(
                 strip_reasoning(append_output_to_history(a_history, output)),
                 a_cfg.max_history)
    /\ a_result' = "ok"
    /\ a_pc' = "done"
    /\ UNCHANGED << a_cfg, a_args, a_iteration, a_pending, a_calls, a_requests,
                    a_produced,
                    a_outcomes >>

\* a completed response with function calls: record it and go execute them
ResponseWithCalls(shape) ==
    /\ a_pc = "await"
    /\ LET n      == Len(a_responses) + 1
           output == OutputOf(shape, n)
       IN /\ function_calls(output) # << >>
          /\ a_responses' = Append(a_responses,
                 [id |-> ResponseId(n), status |-> "completed", output |-> output])
          /\ a_prev' = Some(ResponseId(n))
          /\ a_history' = append_output_to_history(a_history, output)
          /\ a_calls' = function_calls(output)
    /\ a_produced' = Append(a_produced, << >>)
    /\ a_pc' = "tools"
    /\ UNCHANGED << a_cfg, a_args, a_iteration, a_pending, a_result, a_requests,
                    a_outcomes >>

\* a variant that runs the calls of a response last to first
ExecuteTool_last_first(outcome) ==
    /\ a_pc = "tools"
    /\ a_calls # << >>
    /\ LET fc_output == FunctionCallOutput(a_calls[Len(a_calls)],
                                           ToolOutputText(outcome))
       IN /\ a_history' = Append(a_history, fc_output)
          /\ a_pending' = Append(a_pending, fc_output)
          /\ a_produced' = [a_produced EXCEPT ![Len(a_produced)] = Append(@, fc_output)]
    /\ a_calls' = SubSeq(a_calls, 1, Len(a_calls) - 1)
    /\ a_outcomes' = Append(a_outcomes,
           [call_id |-> a_calls[Len(a_calls)], outcome |-> outcome])
    /\ IF Len(a_calls) = 1
       THEN a_iteration' = a_iteration + 1 /\ a_pc' = "loop"
       ELSE UNCHANGED << a_iteration, a_pc >>
    /\ UNCHANGED << a_cfg, a_args, a_prev, a_result, a_requests, a_responses >>

\* one pass of `for (call_id, name, arguments) in calls`; after the last call
\* the outer loop moves to the next iteration
ExecuteTool(outcome) ==
    /\ a_pc = "tools"
    /\ a_calls # << >>
    /\ LET fc_output == FunctionCallOutput(Head(a_calls), ToolOutputText(outcome))
       IN /\ a_history' = Append(a_history, fc_output)
          /\ a_pending' = Append(a_pending, fc_output)
          /\ a_produced' = [a_produced EXCEPT ![Len(a_produced)] = Append(@, fc_output)]
    /\ a_calls' = Tail(a_calls)
    /\ a_outcomes' = Append(a_outcomes,
           [call_id |-> Head(a_calls), outcome |-> outcome])
    /\ IF Tail(a_calls) = << >>
       THEN a_iteration' = a_iteration + 1 /\ a_pc' = "loop"
       ELSE UNCHANGED << a_iteration, a_pc >>
    /\ UNCHANGED << a_cfg, a_args, a_prev, a_result, a_requests, a_responses >>

AgentNext ==
    \/ TurnStart /\ UNCHANGED << procVars, sessVars, cronVars, toolVars, codecVars, lockVars >>
    \/ SendRequest /\ UNCHANGED << procVars, sessVars, cronVars, toolVars, codecVars, lockVars >>
    \/ ExceededIterations /\ UNCHANGED << procVars, sessVars, cronVars, toolVars, codecVars, lockVars >>
    \/ TransportError /\ UNCHANGED << procVars, sessVars, cronVars, toolVars, codecVars, lockVars >>
    \/ \E shape \in ResponseShapes :
          ResponseFailed(shape) /\ UNCHANGED << procVars, sessVars, cronVars, toolVars, codecVars, lockVars >>
    \/ \E shape \in ResponseShapes :
          ResponseFinal(shape) /\ UNCHANGED << procVars, sessVars, cronVars, toolVars, codecVars, lockVars >>
    \/ \E shape \in ResponseShapes :
          ResponseWithCalls(shape) /\ UNCHANGED << procVars, sessVars, cronVars, toolVars, codecVars, lockVars >>
    \/ \E outcome \in ToolOutcomes :
          ExecuteTool(outcome) /\ UNCHANGED << procVars, sessVars, cronVars, toolVars, codecVars, lockVars >>

(***************************************************************************)
(* Process manager: ProcessManager::spawn_or_yield, BackgroundSession and   *)
(* the process tool's poll action.                                         *)
(***************************************************************************)
MAX_OUTPUT_BYTES == 1048576

\* byte lengths of the lines a command may write (without the newline)
LineLens == { 3, 1048570 }

Streams == { "stdout", "stderr" }

\* concurrent callers of the process tool
Pollers == { 1, 2 }

RECURSIVE BufLen(_)
\* String::len of the buffer: the bytes of all its lines
BufLen(buf) == IF buf = << >> THEN 0 ELSE Head(buf).bytes + BufLen(Tail(buf))

\* what a reader task pushes for a line: the line and '\n', after "[stderr] "
\* for the stderr reader
PushedBytes(stream, len) == IF stream = "stderr" THEN 9 + len + 1 ELSE len + 1

\* the reader's append: dropped when the buffer has reached the cap
ReaderAppend(buf, line) ==
    IF BufLen(buf) < MAX_OUTPUT_BYTES
    THEN Append(buf, [stream |-> line.stream, no |-> line.no,
                      bytes |-> PushedBytes(line.stream, line.len)])
    ELSE buf

\* a variant of the slice that returns the whole buffer on every poll
PollSlice_from_start(buf, cursor) == buf

\* buf[cursor..]: the lines of the buffer from byte offset cursor on
PollSlice(buf, cursor) ==
    IF cursor < BufLen(buf)
    THEN LET first == CHOOSE i \in 1..Len(buf) :
                          /\ BufLen(SubSeq(buf, 1, i)) > cursor
                          /\ \A j \in 1..(i - 1) : BufLen(SubSeq(buf, 1, j)) <= cursor
         IN SubSeq(buf, first, Len(buf))
    ELSE << >>

ProcInit ==
    /\ p_cfg \in [timeout_secs : 0..MaxTimeout, exits_on_own : BOOLEAN]
    /\ p_phase = "yield_wait"
    /\ p_child = [state |-> "running", code |-> 0]
    /\ p_pipe = [st \in Streams |-> << >>]
    /\ p_written = 0
    /\ p_buf = << >>
    /\ p_cursor = 0
    /\ p_exit_status = None
    /\ p_child_lock = "free"
    /\ p_watcher = "unspawned"
    /\ p_watchdog = "unspawned"
    /\ p_elapsed = 0
    /\ p_live = FALSE
    /\ p_poller = [t \in Pollers |-> "idle"]
    /\ p_polled = << >>
    /\ p_returned = "none"

\* the process manager when no command is being examined
ProcIdle ==
    /\ p_cfg = [timeout_secs |-> 0, exits_on_own |-> TRUE]
    /\ p_phase = "idle"
    /\ p_child = [state |-> "exited", code |-> 0]
    /\ p_pipe = [st \in Streams |-> << >>]
    /\ p_written = 0
    /\ p_buf = << >>
    /\ p_cursor = 0
    /\ p_exit_status = None
    /\ p_child_lock = "free"
    /\ p_watcher = "unspawned"
    /\ p_watchdog = "unspawned"
    /\ p_elapsed = 0
    /\ p_live = FALSE
    /\ p_poller = [t \in Pollers |-> "idle"]
    /\ p_polled = << >>
    /\ p_returned = "none"

\* the command writes a line to stdout or stderr
ChildWrite(stream, len) ==
    /\ p_phase # "idle"
    /\ p_child.state = "running"
    /\ p_written < MaxLines
    /\ p_written' = p_written + 1
    /\ p_pipe' = [p_pipe EXCEPT ![stream] =
                     Append(@, [stream |-> stream, no |-> p_written + 1, len |-> len])]
    /\ UNCHANGED << p_cfg, p_phase, p_child, p_buf, p_cursor, p_exit_status,
                    p_child_lock, p_watcher, p_watchdog, p_elapsed, p_live,
                    p_poller, p_polled, p_returned >>

\* the command ends by itself
ChildExit ==
    /\ p_phase # "idle"
    /\ p_child.state = "running"
    /\ p_cfg.exits_on_own
    /\ p_child' = [state |-> "exited", code |-> 0]
    /\ UNCHANGED << p_cfg, p_phase, p_pipe, p_written, p_buf, p_cursor,
                    p_exit_status, p_child_lock, p_watcher, p_watchdog,
                    p_elapsed, p_live, p_poller, p_polled, p_returned >>

\* a reader task: next_line, lock the buffer, append unless capped
ReaderTask(stream) ==
    /\ p_pipe[stream] # << >>
    /\ p_buf' = ReaderAppend(p_buf, Head(p_pipe[stream]))
    /\ p_pipe' = [p_pipe EXCEPT ![stream] = Tail(@)]
    /\ UNCHANGED << p_cfg, p_phase, p_child, p_written, p_cursor, p_exit_status,
                    p_child_lock, p_watcher, p_watchdog, p_elapsed, p_live,
                    p_poller, p_polled, p_returned >>

\* child.wait() resolves inside the yield window: sleep 50 ms for the readers
YieldCompleted ==
    /\ p_phase = "yield_wait"
    /\ p_child.state = "exited"
    /\ p_phase' = "flush_sleep"
    /\ UNCHANGED << p_cfg, p_child, p_pipe, p_written, p_buf, p_cursor,
                    p_exit_status, p_child_lock, p_watcher, p_watchdog,
                    p_elapsed, p_live, p_poller, p_polled, p_returned >>

\* after the flush sleep: return SpawnResult::Completed with the buffer
ReturnCompleted ==
    /\ p_phase = "flush_sleep"
    /\ p_phase' = "completed"
    /\ p_returned' = "Completed"
    /\ UNCHANGED << p_cfg, p_child, p_pipe, p_written, p_buf, p_cursor,
                    p_exit_status, p_child_lock, p_watcher, p_watchdog,
                    p_elapsed, p_live, p_poller, p_polled >>

\* the yield window elapses first: build the BackgroundSession (cursor 0),
\* spawn the exit-status watcher and the timeout watchdog, register the session
YieldTimeout ==
    /\ p_phase = "yield_wait"
    /\ p_child.state = "running"
    /\ p_phase' = "backgrounded"
    /\ p_cursor' = 0
    /\ p_watcher' = "spawned"
    /\ p_watchdog' = "sleeping"
    /\ p_elapsed' = 0
    /\ p_live' = TRUE
    /\ p_returned' = "Backgrounded"
    /\ UNCHANGED << p_cfg, p_child, p_pipe, p_written, p_buf, p_exit_status,
                    p_child_lock, p_poller, p_polled >>

\* exit-status watcher: session_ref.child.lock().await, then c.wait() with
\* the guard held
WatcherLock ==
    /\ p_watcher = "spawned"
    /\ p_child_lock = "free"
    /\ p_child_lock' = "watcher"
    /\ p_watcher' = "waiting"
    /\ UNCHANGED << p_cfg, p_phase, p_child, p_pipe, p_written, p_buf, p_cursor,
                    p_exit_status, p_watchdog, p_elapsed, p_live, p_poller,
                    p_polled, p_returned >>

\* exit-status watcher: c.wait() resolves; record the code, drop the guard
WatcherRecord ==
    /\ p_watcher = "waiting"
    /\ p_child.state = "exited"
    /\ p_exit_status' = Some(p_child.code)
    /\ p_child_lock' = "free"
    /\ p_watcher' = "done"
    /\ UNCHANGED << p_cfg, p_phase, p_child, p_pipe, p_written, p_buf, p_cursor,
                    p_watchdog, p_elapsed, p_live, p_poller, p_polled, p_returned >>

\* a second passes after backgrounding
Tick ==
    /\ p_phase = "backgrounded"
    /\ p_elapsed < p_cfg.timeout_secs
    /\ p_elapsed' = p_elapsed + 1
    /\ UNCHANGED << p_cfg, p_phase, p_child, p_pipe, p_written, p_buf, p_cursor,
                    p_exit_status, p_child_lock, p_watcher, p_watchdog, p_live,
                    p_poller, p_polled, p_returned >>

\* timeout watchdog: sleep(timeout) is over; look at exit_status
WatchdogWake ==
    /\ p_watchdog = "sleeping"
    /\ p_elapsed >= p_cfg.timeout_secs
    /\ p_watchdog' = IF p_exit_status = None THEN "locking" ELSE "done"
    /\ UNCHANGED << p_cfg, p_phase, p_child, p_pipe, p_written, p_buf, p_cursor,
                    p_exit_status, p_child_lock, p_watcher, p_elapsed, p_live,
                    p_poller, p_polled, p_returned >>

\* timeout watchdog: session_ref.child.lock().await, then c.kill().await
WatchdogKill ==
    /\ p_watchdog = "locking"
    /\ p_child_lock = "free"
    /\ p_child' = IF p_child.state = "running"
                  THEN [state |-> "exited", code |-> -1]
                  ELSE p_child
    /\ p_watchdog' = "done"
    /\ UNCHANGED << p_cfg, p_phase, p_pipe, p_written, p_buf, p_cursor,
                    p_exit_status, p_child_lock, p_watcher, p_elapsed, p_live,
                    p_poller, p_polled, p_returned >>

\* process tool, action_poll: get_session (an error when the id is not live)
PollGetSession(t) ==
    /\ p_poller[t] = "idle"
    /\ p_phase = "backgrounded"
    /\ Len(p_polled) + Cardinality({ u \in Pollers : p_poller[u] = "polling" }) < MaxPolls
    /\ p_poller' = [p_poller EXCEPT ![t] = IF p_live THEN "polling" ELSE "idle"]
    /\ UNCHANGED << p_cfg, p_phase, p_child, p_pipe, p_written, p_buf, p_cursor,
                    p_exit_status, p_child_lock, p_watcher, p_watchdog, p_elapsed,
                    p_live, p_polled, p_returned >>

\* BackgroundSession::poll_output, with the buffer and cursor locks held
PollOutput(t) ==
    /\ p_poller[t] = "polling"
    /\ p_polled' = Append(p_polled, PollSlice(p_buf, p_cursor))
    /\ p_cursor' = BufLen(p_buf)
    /\ p_poller' = [p_poller EXCEPT ![t] =
                       IF p_exit_status # None THEN "removing" ELSE "idle"]
    /\ UNCHANGED << p_cfg, p_phase, p_child, p_pipe, p_written, p_buf,
                    p_exit_status, p_child_lock, p_watcher, p_watchdog, p_elapsed,
                    p_live, p_returned >>

\* process tool, action_poll: remove_session after a poll that saw the exit
PollRemove(t) ==
    /\ p_poller[t] = "removing"
    /\ p_live' = FALSE
    /\ p_poller' = [p_poller EXCEPT ![t] = "idle"]
    /\ UNCHANGED << p_cfg, p_phase, p_child, p_pipe, p_written, p_buf, p_cursor,
                    p_exit_status, p_child_lock, p_watcher, p_watchdog, p_elapsed,
                    p_polled, p_returned >>

\* whether wait() has already collected the exit of the child
Reaped ==
    /\ p_child.state = "exited"
    /\ (p_child.code = -1 \/ p_exit_status # None)

\* process tool, action_kill: get_session (an error when the id is not live)
KillGetSession(t) ==
    /\ p_poller[t] = "idle"
    /\ p_phase = "backgrounded"
    /\ p_poller' = [p_poller EXCEPT ![t] = IF p_live THEN "kill_lock" ELSE "idle"]
    /\ UNCHANGED << p_cfg, p_phase, p_child, p_pipe, p_written, p_buf, p_cursor,
                    p_exit_status, p_child_lock, p_watcher, p_watchdog, p_elapsed,
                    p_live, p_polled, p_returned >>

\* BackgroundSession::kill: self.child.lock().await, then c.kill().await; on
\* a child that has been waited for, kill fails or succeeds with the version
\* of the runtime, and action_kill returns on a failure
KillChild(t, ok) ==
    /\ p_poller[t] = "kill_lock"
    /\ p_child_lock = "free"
    /\ ok \/ Reaped
    /\ p_child' = IF p_child.state = "running"
                  THEN [state |-> "exited", code |-> -1]
                  ELSE p_child
    /\ p_poller' = [p_poller EXCEPT ![t] = IF ok THEN "kill_drain" ELSE "idle"]
    /\ UNCHANGED << p_cfg, p_phase, p_pipe, p_written, p_buf, p_cursor,
                    p_exit_status, p_child_lock, p_watcher, p_watchdog, p_elapsed,
                    p_live, p_polled, p_returned >>

\* action_kill after the kill: drain_output (sleep 100 ms, clone the buffer),
\* then remove_session
KillRemove(t) ==
    /\ p_poller[t] = "kill_drain"
    /\ p_live' = FALSE
    /\ p_poller' = [p_poller EXCEPT ![t] = "idle"]
    /\ UNCHANGED << p_cfg, p_phase, p_child, p_pipe, p_written, p_buf, p_cursor,
                    p_exit_status, p_child_lock, p_watcher, p_watchdog, p_elapsed,
                    p_polled, p_returned >>

ProcNext ==
    \/ \E stream \in Streams, len \in LineLens :
          ChildWrite(stream, len) /\ UNCHANGED << agentVars, sessVars, cronVars, toolVars, codecVars, lockVars >>
    \/ ChildExit /\ UNCHANGED << agentVars, sessVars, cronVars, toolVars, codecVars, lockVars >>
    \/ \E stream \in Streams :
          ReaderTask(stream) /\ UNCHANGED << agentVars, sessVars, cronVars, toolVars, codecVars, lockVars >>
    \/ YieldCompleted /\ UNCHANGED << agentVars, sessVars, cronVars, toolVars, codecVars, lockVars >>
    \/ ReturnCompleted /\ UNCHANGED << agentVars, sessVars, cronVars, toolVars, codecVars, lockVars >>
    \/ YieldTimeout /\ UNCHANGED << agentVars, sessVars, cronVars, toolVars, codecVars, lockVars >>
    \/ WatcherLock /\ UNCHANGED << agentVars, sessVars, cronVars, toolVars, codecVars, lockVars >>
    \/ WatcherRecord /\ UNCHANGED << agentVars, sessVars, cronVars, toolVars, codecVars, lockVars >>
    \/ Tick /\ UNCHANGED << agentVars, sessVars, cronVars, toolVars, codecVars, lockVars >>
    \/ WatchdogWake /\ UNCHANGED << agentVars, sessVars, cronVars, toolVars, codecVars, lockVars >>
    \/ WatchdogKill /\ UNCHANGED << agentVars, sessVars, cronVars, toolVars, codecVars, lockVars >>
    \/ \E t \in Pollers : PollGetSession(t) /\ UNCHANGED << agentVars, sessVars, cronVars, toolVars, codecVars, lockVars >>
    \/ \E t \in Pollers : PollOutput(t) /\ UNCHANGED << agentVars, sessVars, cronVars, toolVars, codecVars, lockVars >>
    \/ \E t \in Pollers : PollRemove(t) /\ UNCHANGED << agentVars, sessVars, cronVars, toolVars, codecVars, lockVars >>

\* a background session with one caller that kills and one that polls
KillNext ==
    \/ \E stream \in Streams, len \in LineLens :
          ChildWrite(stream, len) /\ UNCHANGED << agentVars, sessVars, cronVars, toolVars, codecVars, lockVars >>
    \/ ChildExit /\ UNCHANGED << agentVars, sessVars, cronVars, toolVars, codecVars, lockVars >>
    \/ \E stream \in Streams :
          ReaderTask(stream) /\ UNCHANGED << agentVars, sessVars, cronVars, toolVars, codecVars, lockVars >>
    \/ YieldCompleted /\ UNCHANGED << agentVars, sessVars, cronVars, toolVars, codecVars, lockVars >>
    \/ ReturnCompleted /\ UNCHANGED << agentVars, sessVars, cronVars, toolVars, codecVars, lockVars >>
    \/ YieldTimeout /\ UNCHANGED << agentVars, sessVars, cronVars, toolVars, codecVars, lockVars >>
    \/ WatcherLock /\ UNCHANGED << agentVars, sessVars, cronVars, toolVars, codecVars, lockVars >>
    \/ WatcherRecord /\ UNCHANGED << agentVars, sessVars, cronVars, toolVars, codecVars, lockVars >>
    \/ Tick /\ UNCHANGED << agentVars, sessVars, cronVars, toolVars, codecVars, lockVars >>
    \/ WatchdogWake /\ UNCHANGED << agentVars, sessVars, cronVars, toolVars, codecVars, lockVars >>
    \/ WatchdogKill /\ UNCHANGED << agentVars, sessVars, cronVars, toolVars, codecVars, lockVars >>
    \/ PollGetSession(2) /\ UNCHANGED << agentVars, sessVars, cronVars, toolVars, codecVars, lockVars >>
    \/ PollOutput(2) /\ UNCHANGED << agentVars, sessVars, cronVars, toolVars, codecVars, lockVars >>
    \/ PollRemove(2) /\ UNCHANGED << agentVars, sessVars, cronVars, toolVars, codecVars, lockVars >>
    \/ KillGetSession(1) /\ UNCHANGED << agentVars, sessVars, cronVars, toolVars, codecVars, lockVars >>
    \/ \E ok \in BOOLEAN :
          KillChild(1, ok) /\ UNCHANGED << agentVars, sessVars, cronVars, toolVars, codecVars, lockVars >>
    \/ KillRemove(1) /\ UNCHANGED << agentVars, sessVars, cronVars, toolVars, codecVars, lockVars >>

(***************************************************************************)
(* Session store (SessionStore) and the gateway tasks that use it.          *)
(***************************************************************************)
\* the gateway tasks spawned per inbound message, and the HTTP handlers
Tasks == { 1, 2 }

\* the session keys inbound messages resolve to
Keys == { "neko:main", "neko:telegram:group:7" }

\* SessionKey::main_dm
main_dm == "neko:main"

\* SessionKey::channel_peer
channel_peer(channel, peer_id) == "neko:" \o channel \o ":dm:" \o peer_id

\* SessionKey::group
group(channel, group_id) == "neko:" \o channel \o ":group:" \o group_id

\* trimmed message texts: an ordinary message and the reset commands
Texts == { "hi", "/new", "/reset" }

\* the first second observed: 23:59:59 of day 0, local time
StartClock == (24 * 3600) - 1

\* session policies explored, with the agent's max_history
SessConfigs ==
    { [dm_scope |-> "main", reset_mode |-> "daily", reset_at_hour |-> 0,
       idle_minutes |-> None, max_history |-> 3],
      [dm_scope |-> "per_channel_peer", reset_mode |-> "both",
       reset_at_hour |-> 4, idle_minutes |-> Some(0), max_history |-> 100] }

\* the configurations explored when messages are handled one at a time:
\* every reset mode with reset hours 0 and 4 and idle limits of none, 0 and
\* 1 minute (a daily policy does not read idle_minutes, an idle policy does
\* not read reset_at_hour), and both DM scopes
StoreConfigs ==
    { [dm_scope |-> "main", reset_mode |-> "daily", reset_at_hour |-> h,
       idle_minutes |-> None, max_history |-> 100] : h \in { 0, 4 } }
    \cup
    { [dm_scope |-> "main", reset_mode |-> "idle", reset_at_hour |-> 4,
       idle_minutes |-> i, max_history |-> 100] :
          i \in { None, Some(0), Some(1) } }
    \cup
    { [dm_scope |-> "main", reset_mode |-> "both", reset_at_hour |-> h,
       idle_minutes |-> i, max_history |-> 100] :
          h \in { 0, 4 }, i \in { Some(0), Some(1) } }
    \cup
    { [dm_scope |-> "per_channel_peer", reset_mode |-> "daily",
       reset_at_hour |-> 4, idle_minutes |-> None, max_history |-> 100] }

\* the instants at which the clock is read: 23:59:59 of day 0, then 00:00:00,
\* 00:00:59 and 04:00:00 of day 1
Instants ==
    { StartClock, StartClock + 1, StartClock + 60, StartClock + 1 + (4 * 3600) }

\* the peers that send direct messages
Peers == { "u1" }

\* the usage a completed turn reports
TurnUsage == [input_tokens |-> 2, output_tokens |-> 1]

\* f with x mapped to v (HashMap::insert, or writing a file)
Put(f, x, v) == [y \in DOMAIN f \cup { x } |-> IF y = x THEN v ELSE f[y]]

\* f without x (HashMap::remove, or removing a file)
Drop(f, x) == [y \in DOMAIN f \ { x } |-> f[y]]

EmptyMap == [x \in { } |-> 0]

\* local date and hour of a time; the local zone is taken to be UTC
LocalDate(time) == time \div (24 * 3600)

LocalHour(time) == (time % (24 * 3600)) \div 3600

\* num_minutes of a duration in seconds
NumMinutes(secs) == secs \div 60

\* a variant whose daily policy asks for an hour past reset_at_hour
should_reset_past_hour(meta, now) ==
    LET daily_triggered ==
            /\ s_cfg.reset_mode \in { "daily", "both" }
            /\ LocalDate(now) > LocalDate(meta.updated_at)
            /\ LocalHour(now) > s_cfg.reset_at_hour
        idle_triggered ==
            /\ s_cfg.reset_mode \in { "idle", "both" }
            /\ s_cfg.idle_minutes # None
            /\ NumMinutes(now - meta.updated_at) >= s_cfg.idle_minutes[1]
    IN daily_triggered \/ idle_triggered

\* should_reset: the configured policy triggers for the session at `now`
should_reset(meta, now) ==
    LET daily_triggered ==
            /\ s_cfg.reset_mode \in { "daily", "both" }
            /\ LocalDate(now) > LocalDate(meta.updated_at)
            /\ LocalHour(now) >= s_cfg.reset_at_hour
        idle_triggered ==
            /\ s_cfg.reset_mode \in { "idle", "both" }
            /\ s_cfg.idle_minutes # None
            /\ NumMinutes(now - meta.updated_at) >= s_cfg.idle_minutes[1]
    IN daily_triggered \/ idle_triggered

\* resolve_key: the session key of an inbound message
resolve_key(channel, sender_id, is_group, group_id) ==
    IF is_group /\ group_id # None
    THEN group(channel, group_id[1])
    ELSE IF s_cfg.dm_scope = "main"
    THEN main_dm
    ELSE channel_peer(channel, sender_id)

\* the snapshots persist_meta_inner can build: one meta per key of the map
MetaMaps(sessions) ==
    LET keys == { sessions[id].meta.key : id \in DOMAIN sessions }
    IN { f \in [keys -> { sessions[id].meta : id \in DOMAIN sessions }] :
            \A k \in keys : f[k].key = k }

\* a variant of get_or_create without the re-check under the write lock
DoubleCheckHit_skipped(index, key) == FALSE

\* get_or_create: the key is in the index once the write locks are held
DoubleCheckHit(index, key) == key \in DOMAIN index

\* update_history: the items appended to the transcript
NewItems(old_history, history) ==
    IF Len(history) > Len(old_history)
    THEN SubSeq(history, Len(old_history) + 1, Len(history))
    ELSE history

\* the items an agent turn appends for its n-th message: the user message and
\* the assistant's reply
TurnItems(n) == << Msg("user", n), Msg("assistant", n) >>

\* the history a successful turn returns (run_turn_with_history without tool
\* calls): strip_reasoning, then trim_history
TurnHistory(history, n) ==
    trim_history(strip_reasoning(history \o TurnItems(n)), s_cfg.max_history)

\* a gateway task that handles nothing
IdleTask ==
    [pc |-> "idle", channel |-> "", sender_id |-> None, key |-> "",
     command |-> FALSE, seq |-> 0, sid |-> 0, stale |-> FALSE,
     history |-> << >>, prev |-> None, snapshot |-> EmptyMap, after |-> "idle"]

\* handle_message: the trimmed text is one of the reset commands
IsResetCommand(text) == text = "/new" \/ text = "/reset"

\* where handle_message goes once get_or_create has returned
RouteAfter(task, sid) ==
    IF task.command
    THEN [task EXCEPT !.sid = sid, !.pc = "reset", !.after = "idle"]
    ELSE [task EXCEPT !.sid = sid, !.pc = "check_reset"]

\* an operation may start, on the first free task: one at a time when they
\* arrive serially
MayStart(t) ==
    /\ s_task[t].pc = "idle"
    /\ \A u \in Tasks : u < t => s_task[u].pc # "idle"
    /\ IF s_serial
       THEN s_ops < MaxOps /\ \A u \in Tasks : s_task[u].pc = "idle"
       ELSE s_ops < MaxConcurrentOps

SessInit ==
    /\ s_cfg \in SessConfigs
    /\ s_clock = StartClock
    /\ s_sessions = EmptyMap
    /\ s_key_index = EmptyMap
    /\ s_readers = { }
    /\ s_next_id = 1
    /\ s_transcript = EmptyMap
    /\ s_archives = EmptyMap
    /\ s_json = None
    /\ s_tmp = None
    /\ s_task = [t \in Tasks |-> IdleTask]
    /\ s_ops = 0
    /\ s_turn_no = 0
    /\ s_appended = EmptyMap
    /\ s_reset_lines = EmptyMap
    /\ s_serial \in BOOLEAN
    /\ s_boot_turn = None

\* the session store when it is not being examined
SessIdle ==
    /\ s_cfg = [dm_scope |-> "main", reset_mode |-> "daily", reset_at_hour |-> 4,
                idle_minutes |-> None, max_history |-> 100]
    /\ s_clock = StartClock
    /\ s_sessions = EmptyMap
    /\ s_key_index = EmptyMap
    /\ s_readers = { }
    /\ s_next_id = 1
    /\ s_transcript = EmptyMap
    /\ s_archives = EmptyMap
    /\ s_json = None
    /\ s_tmp = None
    /\ s_task = [t \in Tasks |-> IdleTask]
    /\ s_ops = MaxOps
    /\ s_turn_no = 0
    /\ s_appended = EmptyMap
    /\ s_reset_lines = EmptyMap
    /\ s_serial = TRUE
    /\ s_boot_turn = None

\* the start of a store that handles its messages one at a time
StoreInit ==
    /\ s_cfg \in StoreConfigs
    /\ s_clock = StartClock
    /\ s_sessions = EmptyMap
    /\ s_key_index = EmptyMap
    /\ s_readers = { }
    /\ s_next_id = 1
    /\ s_transcript = EmptyMap
    /\ s_archives = EmptyMap
    /\ s_json = None
    /\ s_tmp = None
    /\ s_task = [t \in Tasks |-> IdleTask]
    /\ s_ops = 0
    /\ s_turn_no = 0
    /\ s_appended = EmptyMap
    /\ s_reset_lines = EmptyMap
    /\ s_serial = TRUE
    /\ s_boot_turn = None

\* a second passes
ClockTick ==
    /\ s_clock - StartClock < MaxTicks
    /\ s_clock' = s_clock + 1
    /\ UNCHANGED << s_cfg, s_sessions, s_key_index, s_readers, s_next_id,
                    s_transcript, s_archives, s_json, s_tmp, s_task, s_ops,
                    s_turn_no, s_appended, s_reset_lines, s_serial,
                    s_boot_turn >>

\* cmd_start's handler loop: an inbound message gets its own task running
\* Gateway::handle_message, which resolves the key first
StartMessage(t, key, text) ==
    /\ MayStart(t)
    /\ s_ops' = s_ops + 1
    /\ s_task' = [s_task EXCEPT ![t] =
                     [IdleTask EXCEPT !.pc = "goc_fast", !.key = key,
                                      !.seq = s_ops + 1,
                                      !.command = IsResetCommand(text)]]
    /\ UNCHANGED << s_cfg, s_clock, s_sessions, s_key_index, s_readers,
                    s_next_id, s_transcript, s_archives, s_json, s_tmp,
                    s_turn_no, s_appended, s_reset_lines, s_serial,
                    s_boot_turn >>

\* get_or_create, fast path: look the key up under the index read lock
GetOrCreateFast(t) ==
    /\ s_task[t].pc = "goc_fast"
    /\ s_task' = [s_task EXCEPT ![t] =
                     IF @.key \in DOMAIN s_key_index
                     THEN RouteAfter(@, s_key_index[@.key])
                     ELSE [@ EXCEPT !.pc = "goc_slow"]]
    /\ UNCHANGED << s_cfg, s_clock, s_sessions, s_key_index, s_readers,
                    s_next_id, s_transcript, s_archives, s_json, s_tmp, s_ops,
                    s_turn_no, s_appended, s_reset_lines, s_serial,
                    s_boot_turn >>

\* get_or_create, slow path: with both write locks held, re-check, insert
\* the new session and persist the metadata
GetOrCreateSlow(t) ==
    /\ s_task[t].pc = "goc_slow"
    /\ s_readers = { }
    /\ LET key == s_task[t].key
       IN IF DoubleCheckHit(s_key_index, key)
          THEN /\ s_task' = [s_task EXCEPT ![t] = RouteAfter(@, s_key_index[key])]
               /\ UNCHANGED << s_sessions, s_key_index, s_next_id, s_json,
                               s_appended, s_reset_lines >>
          ELSE LET id == s_next_id
                   session == [meta |-> [session_id |-> id, key |-> key,
                                         created_at |-> s_clock,
                                         updated_at |-> s_clock,
                                         turn_count |-> 0, input_tokens |-> 0,
                                         output_tokens |-> 0,
                                         last_response_id |-> None],
                               history |-> << >>]
                   sessions == Put(s_sessions, id, session)
               IN /\ s_sessions' = sessions
                  /\ s_key_index' = Put(s_key_index, key, id)
                  /\ s_next_id' = s_next_id + 1
                  /\ \E snapshot \in MetaMaps(sessions) : s_json' = Some(snapshot)
                  /\ s_appended' = Put(s_appended, id, << >>)
                  /\ s_reset_lines' = Put(s_reset_lines, id, { })
                  /\ s_task' = [s_task EXCEPT ![t] = RouteAfter(@, id)]
    /\ UNCHANGED << s_cfg, s_clock, s_readers, s_transcript, s_archives, s_tmp,
                    s_ops, s_turn_no, s_serial,
                    s_boot_turn >>

\* check_reset: evaluate the policy under the session lock; reset() follows
\* as a separate call
CheckReset(t) ==
    /\ s_task[t].pc = "check_reset"
    /\ LET sid == s_task[t].sid
       IN s_task' = [s_task EXCEPT ![t] =
              IF sid \in DOMAIN s_sessions /\ should_reset(s_sessions[sid].meta, s_clock)
              THEN [@ EXCEPT !.pc = "reset", !.after = "get_history"]
              ELSE [@ EXCEPT !.pc = "get_history"]]
    /\ UNCHANGED << s_cfg, s_clock, s_sessions, s_key_index, s_readers,
                    s_next_id, s_transcript, s_archives, s_json, s_tmp, s_ops,
                    s_turn_no, s_appended, s_reset_lines, s_serial,
                    s_boot_turn >>

\* a variant of reset that leaves updated_at as it was
ResetSession_updated_at_kept(t) ==
    /\ s_task[t].pc = "reset"
    /\ LET sid == s_task[t].sid
       IN IF sid \notin DOMAIN s_sessions
          THEN /\ s_task' = [s_task EXCEPT ![t] = IdleTask]
               /\ UNCHANGED << s_sessions, s_transcript, s_archives, s_appended,
                               s_reset_lines >>
          ELSE /\ IF sid \in DOMAIN s_transcript
                  THEN /\ s_archives' = Put(s_archives, << sid, s_clock >>,
                                            s_transcript[sid])
                       /\ s_transcript' = Drop(s_transcript, sid)
                       /\ s_reset_lines' = [s_reset_lines EXCEPT ![sid] =
                                               @ \cup Range(s_transcript[sid])]
                  ELSE UNCHANGED << s_archives, s_transcript, s_reset_lines >>
               /\ s_sessions' = [s_sessions EXCEPT
                                    ![sid].history = << >>,
                                    ![sid].meta.turn_count = 0,
                                    ![sid].meta.last_response_id = None]
               /\ s_appended' = [s_appended EXCEPT ![sid] = << >>]
               /\ s_task' = [u \in Tasks |->
                     IF u = t THEN [s_task[u] EXCEPT !.pc = "persist_snap"]
                     ELSE IF s_task[u].pc = "turn" /\ s_task[u].sid = sid
                     THEN [s_task[u] EXCEPT !.stale = TRUE]
                     ELSE s_task[u]]
    /\ UNCHANGED << s_cfg, s_clock, s_key_index, s_readers, s_next_id, s_json,
                    s_tmp, s_ops, s_turn_no, s_serial,
                    s_boot_turn >>

\* reset, up to the release of the session lock: rename the transcript to
\* <session_id>.<timestamp>.jsonl (replacing a file of that name), clear;
\* the turns in flight on the session are marked as having read it before
ResetSession(t) ==
    /\ s_task[t].pc = "reset"
    /\ LET sid == s_task[t].sid
       IN IF sid \notin DOMAIN s_sessions
          THEN /\ s_task' = [s_task EXCEPT ![t] = IdleTask]
               /\ UNCHANGED << s_sessions, s_transcript, s_archives, s_appended,
                               s_reset_lines >>
          ELSE /\ IF sid \in DOMAIN s_transcript
                  THEN /\ s_archives' = Put(s_archives, << sid, s_clock >>,
                                            s_transcript[sid])
                       /\ s_transcript' = Drop(s_transcript, sid)
                       /\ s_reset_lines' = [s_reset_lines EXCEPT ![sid] =
                                               @ \cup Range(s_transcript[sid])]
                  ELSE UNCHANGED << s_archives, s_transcript, s_reset_lines >>
               /\ s_sessions' = [s_sessions EXCEPT
                                    ![sid].history = << >>,
                                    ![sid].meta.updated_at = s_clock,
                                    ![sid].meta.turn_count = 0,
                                    ![sid].meta.last_response_id = None]
               /\ s_appended' = [s_appended EXCEPT ![sid] = << >>]
               /\ s_task' = [u \in Tasks |->
                     IF u = t THEN [s_task[u] EXCEPT !.pc = "persist_snap"]
                     ELSE IF s_task[u].pc = "turn" /\ s_task[u].sid = sid
                     THEN [s_task[u] EXCEPT !.stale = TRUE]
                     ELSE s_task[u]]
    /\ UNCHANGED << s_cfg, s_clock, s_key_index, s_readers, s_next_id, s_json,
                    s_tmp, s_ops, s_turn_no, s_serial,
                    s_boot_turn >>

\* persist_meta: take the read lock of `sessions` and clone every meta
PersistSnapshot(t) ==
    /\ s_task[t].pc = "persist_snap"
    /\ s_readers' = s_readers \cup { t }
    /\ \E snapshot \in MetaMaps(s_sessions) :
           s_task' = [s_task EXCEPT ![t].pc = "persist_write",
                                    ![t].snapshot = snapshot]
    /\ UNCHANGED << s_cfg, s_clock, s_sessions, s_key_index, s_next_id,
                    s_transcript, s_archives, s_json, s_tmp, s_ops, s_turn_no,
                    s_appended, s_reset_lines, s_serial,
                    s_boot_turn >>

\* persist_meta_inner: fs::write(sessions.json.tmp)
PersistWrite(t) ==
    /\ s_task[t].pc = "persist_write"
    /\ s_tmp' = Some(s_task[t].snapshot)
    /\ s_task' = [s_task EXCEPT ![t].pc = "persist_rename"]
    /\ UNCHANGED << s_cfg, s_clock, s_sessions, s_key_index, s_readers,
                    s_next_id, s_transcript, s_archives, s_json, s_ops,
                    s_turn_no, s_appended, s_reset_lines, s_serial,
                    s_boot_turn >>

\* persist_meta_inner: fs::rename(sessions.json.tmp, sessions.json), an error
\* when the temporary file is gone; the read lock is released on return
PersistRename(t) ==
    /\ s_task[t].pc = "persist_rename"
    /\ s_readers' = s_readers \ { t }
    /\ IF s_tmp = None
       THEN /\ s_task' = [s_task EXCEPT ![t] = IdleTask]
            /\ UNCHANGED << s_json, s_tmp >>
       ELSE /\ s_json' = s_tmp
            /\ s_tmp' = None
            /\ s_task' = [s_task EXCEPT ![t] =
                             IF @.after = "idle"
                             THEN IdleTask
                             ELSE [@ EXCEPT !.pc = s_task[t].after,
                                            !.after = "idle",
                                            !.snapshot = EmptyMap]]
    /\ UNCHANGED << s_cfg, s_clock, s_sessions, s_key_index, s_next_id,
                    s_transcript, s_archives, s_ops, s_turn_no, s_appended,
                    s_reset_lines, s_serial,
                    s_boot_turn >>

\* get_history: clone the history and the last response id under the session
\* lock, which is released on return
GetHistory(t) ==
    /\ s_task[t].pc = "get_history"
    /\ LET sid == s_task[t].sid
       IN s_task' = [s_task EXCEPT ![t] =
              IF sid \in DOMAIN s_sessions
              THEN [@ EXCEPT !.pc = "turn",
                             !.history = s_sessions[sid].history,
                             !.prev = s_sessions[sid].meta.last_response_id]
              ELSE IdleTask]
    /\ UNCHANGED << s_cfg, s_clock, s_sessions, s_key_index, s_readers,
                    s_next_id, s_transcript, s_archives, s_json, s_tmp, s_ops,
                    s_turn_no, s_appended, s_reset_lines, s_serial,
                    s_boot_turn >>

\* a variant of the failing turn that still counts the turn in the session
TurnErr_counted(t) ==
    /\ s_task[t].pc = "turn"
    /\ s_task' = [s_task EXCEPT ![t] = IdleTask]
    /\ s_sessions' =
          IF s_task[t].sid \in DOMAIN s_sessions
          THEN [s_sessions EXCEPT ![s_task[t].sid].meta.turn_count = @ + 1]
          ELSE s_sessions
    /\ UNCHANGED << s_cfg, s_clock, s_key_index, s_readers,
                    s_next_id, s_transcript, s_archives, s_json, s_tmp, s_ops,
                    s_turn_no, s_appended, s_reset_lines, s_serial,
                    s_boot_turn >>

\* agent.run_turn_with_history returns Err: handle_message returns it and
\* update_history is not called
TurnErr(t) ==
    /\ s_task[t].pc = "turn"
    /\ s_task' = [s_task EXCEPT ![t] = IdleTask]
    /\ UNCHANGED << s_cfg, s_clock, s_sessions, s_key_index, s_readers,
                    s_next_id, s_transcript, s_archives, s_json, s_tmp, s_ops,
                    s_turn_no, s_appended, s_reset_lines, s_serial,
                    s_boot_turn >>

\* agent.run_turn_with_history returns Ok and update_history runs up to the
\* release of the session lock
UpdateHistory(t) ==
    /\ s_task[t].pc = "turn"
    /\ s_turn_no' = s_turn_no + 1
    /\ LET sid == s_task[t].sid
           n == s_turn_no + 1
           history == TurnHistory(s_task[t].history, n)
           last_response_id == Some(n)
       IN IF sid \notin DOMAIN s_sessions
          THEN /\ s_task' = [s_task EXCEPT ![t] = IdleTask]
               /\ UNCHANGED << s_sessions, s_transcript, s_appended >>
          ELSE LET new_items == NewItems(s_sessions[sid].history, history)
               IN /\ s_transcript' =
                        IF new_items = << >> THEN s_transcript
                        ELSE IF sid \in DOMAIN s_transcript
                        THEN [s_transcript EXCEPT ![sid] = @ \o new_items]
                        ELSE Put(s_transcript, sid, new_items)
                  /\ s_sessions' = [s_sessions EXCEPT
                        ![sid].history = history,
                        ![sid].meta.updated_at = s_clock,
                        ![sid].meta.turn_count = @ + 1,
                        ![sid].meta.last_response_id = last_response_id,
                        ![sid].meta.input_tokens = @ + TurnUsage.input_tokens,
                        ![sid].meta.output_tokens = @ + TurnUsage.output_tokens]
                  /\ s_appended' = [s_appended EXCEPT ![sid] = @ \o TurnItems(n)]
                  /\ s_task' = [s_task EXCEPT ![t].pc = "persist_snap",
                                              ![t].after = "idle"]
    /\ UNCHANGED << s_cfg, s_clock, s_key_index, s_readers, s_next_id,
                    s_archives, s_json, s_tmp, s_ops, s_reset_lines, s_serial,
                    s_boot_turn >>

\* time passes up to a later instant, between two messages or while the
\* agent works on a turn
ClockAdvance ==
    /\ \A t \in Tasks : s_task[t].pc \in { "idle", "turn" }
    /\ \E now \in Instants : now > s_clock /\ s_clock' = now
    /\ UNCHANGED << s_cfg, s_sessions, s_key_index, s_readers, s_next_id,
                    s_transcript, s_archives, s_json, s_tmp, s_task, s_ops,
                    s_turn_no, s_appended, s_reset_lines, s_serial,
                    s_boot_turn >>

\* Gateway::handle_message for a direct message of a channel: resolve_key,
\* then get_or_create
StartDirectMessage(t, channel, sender_id, text) ==
    /\ MayStart(t)
    /\ s_ops' = s_ops + 1
    /\ s_task' = [s_task EXCEPT ![t] =
                     [IdleTask EXCEPT
                         !.pc = "goc_fast", !.channel = channel,
                         !.sender_id = Some(sender_id),
                         !.key = resolve_key(channel, sender_id, FALSE, None),
                         !.seq = s_ops + 1,
                         !.command = IsResetCommand(text)]]
    /\ UNCHANGED << s_cfg, s_clock, s_sessions, s_key_index, s_readers,
                    s_next_id, s_transcript, s_archives, s_json, s_tmp,
                    s_turn_no, s_appended, s_reset_lines, s_serial,
                    s_boot_turn >>

\* Gateway::handle_http_message without a session_id: the peer is the sender
\* id or "http-default"; no reset command is recognised on this path
StartHttpMessage(t, sender_id) ==
    /\ MayStart(t)
    /\ s_ops' = s_ops + 1
    /\ LET peer == IF sender_id # None THEN sender_id[1] ELSE "http-default"
       IN s_task' = [s_task EXCEPT ![t] =
                        [IdleTask EXCEPT
                            !.pc = "goc_fast", !.channel = "http",
                            !.sender_id = sender_id,
                            !.key = resolve_key("http", peer, FALSE, None),
                            !.seq = s_ops + 1]]
    /\ UNCHANGED << s_cfg, s_clock, s_sessions, s_key_index, s_readers,
                    s_next_id, s_transcript, s_archives, s_json, s_tmp,
                    s_turn_no, s_appended, s_reset_lines, s_serial,
                    s_boot_turn >>

\* load_transcript: the items of <session_id>.jsonl, none without the file
load_transcript(sid) ==
    IF sid \in DOMAIN s_transcript THEN s_transcript[sid] ELSE << >>

\* the process is started again while nothing is in flight: a new
\* SessionStore is filled by load_from_disk from sessions.json and the
\* transcripts
Restart ==
    /\ \A t \in Tasks : s_task[t].pc = "idle"
    /\ s_boot_turn # Some(s_turn_no)
    /\ LET meta_map == IF s_json = None THEN EmptyMap ELSE s_json[1]
           ids == { meta_map[k].session_id : k \in DOMAIN meta_map }
           meta_of(id) == CHOOSE m \in { meta_map[k] : k \in DOMAIN meta_map } :
                              m.session_id = id
       IN /\ s_sessions' = [id \in ids |->
                               [meta |-> meta_of(id), history |-> load_transcript(id)]]
          /\ s_key_index' = [k \in DOMAIN meta_map |-> meta_map[k].session_id]
    /\ s_readers' = { }
    /\ s_boot_turn' = Some(s_turn_no)
    /\ UNCHANGED << s_cfg, s_clock, s_next_id, s_transcript, s_archives, s_json,
                    s_tmp, s_task, s_ops, s_turn_no, s_appended, s_reset_lines,
                    s_serial >>

\* delete (DELETE /api/v1/sessions/{id}): with both write locks held, remove
\* the session, its key and its transcript, and persist the metadata
DeleteSession(t, sid) ==
    /\ MayStart(t)
    /\ s_readers = { }
    /\ s_ops' = s_ops + 1
    /\ LET sessions == IF sid \in DOMAIN s_sessions THEN Drop(s_sessions, sid)
                       ELSE s_sessions
       IN /\ s_sessions' = sessions
          /\ IF sid \in DOMAIN s_sessions
             THEN s_key_index' = Drop(s_key_index, s_sessions[sid].meta.key)
             ELSE UNCHANGED s_key_index
          /\ \E snapshot \in MetaMaps(sessions) : s_json' = Some(snapshot)
    /\ s_transcript' = IF sid \in DOMAIN s_transcript THEN Drop(s_transcript, sid)
                       ELSE s_transcript
    /\ UNCHANGED << s_cfg, s_clock, s_readers, s_next_id, s_archives, s_tmp,
                    s_task, s_turn_no, s_appended, s_reset_lines, s_serial,
                    s_boot_turn >>

\* clear_all: with both write locks held, drop every session and key, remove
\* every *.jsonl file (transcripts and archives), write an empty sessions.json
ClearAll(t) ==
    /\ MayStart(t)
    /\ s_readers = { }
    /\ s_ops' = s_ops + 1
    /\ s_sessions' = EmptyMap
    /\ s_key_index' = EmptyMap
    /\ s_transcript' = EmptyMap
    /\ s_archives' = EmptyMap
    /\ s_reset_lines' = [id \in DOMAIN s_reset_lines |-> { }]
    /\ s_json' = Some(EmptyMap)
    /\ UNCHANGED << s_cfg, s_clock, s_readers, s_next_id, s_tmp, s_task,
                    s_turn_no, s_appended, s_serial,
                    s_boot_turn >>

(***************************************************************************)
(* Cron scheduler: should_fire, backoff_duration and the task spawned by    *)
(* spawn_scheduler (src/src/cron/mod.rs).                                   *)
(***************************************************************************)
\* the period of the scheduler's interval, in seconds
TickSecs == 15

\* how far before `now` should_fire looks for a scheduled instant, in seconds
WindowSecs == 16

\* the time the scheduler starts at: a full hour
CronStart == 60 * 60

\* cron expressions of the 6-field grammar, and one that does not parse
CronExprs == { "*/5 * * * * *", "0 * * * * *", "every day" }

\* cron::Schedule::from_str: the period in seconds of the expressions above,
\* None for an expression that does not parse
ParseCron(expr) ==
    CASE expr = "*/5 * * * * *" -> Some(5)
      [] expr = "0 * * * * *" -> Some(60)
      [] OTHER -> None

\* schedule.after(&t).next(): the first scheduled instant strictly after t
AfterNext(period, t) == period * ((t \div period) + 1)

CronSchedule(expr) == [type |-> "cron", expr |-> expr, datetime |-> 0]

AtSchedule(datetime) == [type |-> "at", expr |-> "", datetime |-> datetime]

\* RetryState::default()
DefaultRetry == [consecutive_failures |-> 0, retry_after |-> None]

\* a variant of the backoff that doubles from 30 s on
backoff_duration_doubling(consecutive_failures) ==
    IF consecutive_failures = 0 THEN 0 ELSE 30 * (2 ^ (consecutive_failures - 1))

backoff_duration(consecutive_failures) ==
    CASE consecutive_failures = 0 -> 0
      [] consecutive_failures = 1 -> 30
      [] consecutive_failures = 2 -> 60
      [] consecutive_failures = 3 -> 300
      [] consecutive_failures = 4 -> 900
      [] OTHER -> 3600

\* a variant that never sees a job as backing off
BackingOff_never(job, now) == FALSE

\* should_fire: the job is backing off
BackingOff(job, now) ==
    job.retry.retry_after # None /\ now < job.retry.retry_after[1]

\* should_fire, Schedule::Cron: the instant the job would fire for
CronPrev(job, now) == AfterNext(ParseCron(job.schedule.expr)[1], now - WindowSecs)

\* should_fire, Schedule::Cron
CronDue(job, now) ==
    /\ ParseCron(job.schedule.expr) # None
    /\ CronPrev(job, now) <= now
    /\ \/ job.last_run_at = None
       \/ CronPrev(job, now) > job.last_run_at[1]

\* a variant of the one-shot rule that waits until the time has passed
AtDue_strictly_after(job, now) ==
    /\ now > job.schedule.datetime
    /\ job.last_run_at = None

\* should_fire, Schedule::At
AtDue(job, now) ==
    /\ ~(now < job.schedule.datetime)
    /\ job.last_run_at = None

should_fire(job, now) ==
    /\ job.enabled
    /\ ~BackingOff(job, now)
    /\ IF job.schedule.type = "cron" THEN CronDue(job, now) ELSE AtDue(job, now)

\* the retain predicate's complement: a one-shot job dropped after the loop
DroppedOneShot(j) == j.schedule.type = "at" /\ ~j.keep_after_run /\ ~j.enabled

\* updated_jobs.retain(..)
Retained(jobs) == SelectSeq(jobs, LAMBDA j : ~DroppedOneShot(j))

\* what jobs.json may record about a job's past when the scheduler starts:
\* never run, run with success a minute ago, or failed k times in a row with
\* a backoff that ends now
PriorStates ==
    { [last_run_at |-> None, retry |-> DefaultRetry],
      [last_run_at |-> Some(CronStart - 60), retry |-> DefaultRetry] }
    \cup { [last_run_at |-> Some(CronStart - backoff_duration(k)),
            retry |-> [consecutive_failures |-> k,
                       retry_after |-> Some(CronStart)]] : k \in { 2, 4, 5 } }

\* the schedules explored: the cron expressions, and one-shot times before
\* the first tick, at the second tick and between the second and the third
Schedules ==
    { CronSchedule(expr) : expr \in CronExprs }
    \cup { AtSchedule(CronStart + d) : d \in { -5, TickSecs, TickSecs + 5 } }

CronJob(id, schedule, enabled, keep_after_run, prior) ==
    [id |-> id, schedule |-> schedule, enabled |-> enabled,
     keep_after_run |-> keep_after_run, last_run_at |-> prior.last_run_at,
     retry |-> prior.retry]

\* the job files explored: no job, one job of any kind, or a one-shot job
\* that was never run followed by a every-five-seconds job
JobFiles ==
    { << >> }
    \cup { << CronJob("a", sch, en, keep, prior) >> :
              sch \in Schedules, en \in BOOLEAN, keep \in BOOLEAN,
              prior \in PriorStates }
    \cup { << CronJob("a", sch, TRUE, keep, [last_run_at |-> None, retry |-> DefaultRetry]),
             CronJob("b", CronSchedule("*/5 * * * * *"), TRUE, FALSE,
                     [last_run_at |-> None, retry |-> DefaultRetry]) >> :
              sch \in { t \in Schedules : t.type = "at" }, keep \in BOOLEAN }

CronInit ==
    /\ c_now = CronStart
    /\ c_file \in JobFiles
    /\ c_file0 = c_file
    /\ c_pc = "sleeping"
    /\ c_next_tick = CronStart
    /\ c_ticks = 0
    /\ c_tick_now = 0
    /\ c_updated = << >>
    /\ c_i = 0
    /\ c_modified = FALSE
    /\ c_started = 0
    /\ c_eval = None
    /\ c_log = << >>
    /\ c_added = { }

\* the scheduler when it is not being examined
CronIdle ==
    /\ c_now = CronStart
    /\ c_file = << >>
    /\ c_file0 = << >>
    /\ c_pc = "sleeping"
    /\ c_next_tick = CronStart
    /\ c_ticks = MaxCronTicks
    /\ c_tick_now = 0
    /\ c_updated = << >>
    /\ c_i = 0
    /\ c_modified = FALSE
    /\ c_started = 0
    /\ c_eval = None
    /\ c_log = << >>
    /\ c_added = { }

\* a second passes: while the scheduler waits for its next tick, or while
\* agent.run_turn is awaited
CronClock ==
    /\ \/ c_pc = "sleeping" /\ c_now < c_next_tick /\ c_ticks < MaxCronTicks
       \/ c_pc = "running" /\ c_now - c_started < MaxRunSecs
    /\ c_now' = c_now + 1
    /\ UNCHANGED << c_file, c_file0, c_pc, c_next_tick, c_ticks, c_tick_now,
                    c_updated, c_i, c_modified, c_started, c_eval, c_log,
                    c_added >>

\* interval.tick() returns: load_jobs, continue when there is none, else take
\* `now` and start the loop over updated_jobs
CronTick ==
    /\ c_pc = "sleeping"
    /\ c_now >= c_next_tick
    /\ c_ticks < MaxCronTicks
    /\ c_ticks' = c_ticks + 1
    /\ c_next_tick' = c_next_tick + TickSecs
    /\ IF c_file = << >>
       THEN UNCHANGED << c_pc, c_tick_now, c_updated, c_i >>
       ELSE /\ c_pc' = "loop"
            /\ c_tick_now' = c_now
            /\ c_updated' = c_file
            /\ c_i' = 1
    /\ UNCHANGED << c_now, c_file, c_file0, c_modified, c_started, c_eval, c_log,
                    c_added >>

\* one pass of the loop up to the run: should_fire(&updated_jobs[i], now),
\* continue when false, else start agent.run_turn
CronEvaluate ==
    /\ c_pc = "loop"
    /\ c_i <= Len(c_updated)
    /\ LET job == c_updated[c_i]
           fire == should_fire(job, c_tick_now)
       IN /\ c_eval' = Some([job |-> job, now |-> c_tick_now, fire |-> fire])
          /\ IF fire
             THEN /\ c_pc' = "running"
                  /\ c_started' = c_now
                  /\ UNCHANGED c_i
             ELSE /\ c_i' = c_i + 1
                  /\ UNCHANGED << c_pc, c_started,
                    c_added >>
    /\ UNCHANGED << c_now, c_file, c_file0, c_next_tick, c_ticks, c_tick_now,
                    c_updated, c_modified, c_log,
                    c_added >>

\* the entry of the run log for the run that ends now
RunEntry(job, success) ==
    [id |-> job.id, success |-> success, tick |-> c_ticks, now |-> c_tick_now,
     instant |-> IF job.schedule.type = "cron" THEN CronPrev(job, c_tick_now)
                 ELSE job.schedule.datetime,
     started_at |-> c_started, finished_at |-> c_now]

\* a variant of the success branch that leaves the retry state as it was
AfterSuccess_retry_kept(job, finished_at) ==
    [job EXCEPT !.last_run_at = Some(finished_at),
                !.enabled = IF job.schedule.type = "at" /\ ~job.keep_after_run
                            THEN FALSE ELSE @]

\* the Ok branch: set last_run_at, reset the retry state, disable a one-shot
\* job that is not kept
AfterSuccess(job, finished_at) ==
    LET is_one_shot == job.schedule.type = "at"
        keep == job.keep_after_run
    IN [job EXCEPT !.last_run_at = Some(finished_at),
                   !.retry = DefaultRetry,
                   !.enabled = IF is_one_shot /\ ~keep THEN FALSE ELSE @]

\* agent.run_turn returns Ok
CronRunOk ==
    /\ c_pc = "running"
    /\ LET job == c_updated[c_i]
       IN /\ c_updated' = [c_updated EXCEPT ![c_i] = AfterSuccess(job, c_now)]
          /\ c_log' = Append(c_log, RunEntry(job, TRUE))
    /\ c_modified' = TRUE
    /\ c_i' = c_i + 1
    /\ c_pc' = "loop"
    /\ c_started' = 0
    /\ UNCHANGED << c_now, c_file, c_file0, c_next_tick, c_ticks, c_tick_now,
                    c_eval,
                    c_added >>

\* a variant of the Err branch that leaves last_run_at as it was
CronRunErr_last_run_kept ==
    /\ c_pc = "running"
    /\ LET job == c_updated[c_i]
           failures == job.retry.consecutive_failures + 1
           wait == backoff_duration(failures)
       IN /\ c_updated' = [c_updated EXCEPT ![c_i] =
                 [@ EXCEPT !.retry = [consecutive_failures |-> failures,
                                      retry_after |-> Some(c_now + wait)]]]
          /\ c_log' = Append(c_log, RunEntry(job, FALSE))
    /\ c_modified' = TRUE
    /\ c_i' = c_i + 1
    /\ c_pc' = "loop"
    /\ c_started' = 0
    /\ UNCHANGED << c_now, c_file, c_file0, c_next_tick, c_ticks, c_tick_now,
                    c_eval,
                    c_added >>

\* agent.run_turn returns Err: count the failure, set retry_after and
\* last_run_at
CronRunErr ==
    /\ c_pc = "running"
    /\ LET job == c_updated[c_i]
           failures == job.retry.consecutive_failures + 1
           wait == backoff_duration(failures)
       IN /\ c_updated' = [c_updated EXCEPT ![c_i] =
                 [@ EXCEPT !.retry = [consecutive_failures |-> failures,
                                      retry_after |-> Some(c_now + wait)],
                           !.last_run_at = Some(c_now)]]
          /\ c_log' = Append(c_log, RunEntry(job, FALSE))
    /\ c_modified' = TRUE
    /\ c_i' = c_i + 1
    /\ c_pc' = "loop"
    /\ c_started' = 0
    /\ UNCHANGED << c_now, c_file, c_file0, c_next_tick, c_ticks, c_tick_now,
                    c_eval,
                    c_added >>

\* after the loop: drop the one-shot jobs disabled above, save_jobs when
\* something changed, and wait for the next tick
CronFinishTick ==
    /\ c_pc = "loop"
    /\ c_i > Len(c_updated)
    /\ LET retained == Retained(c_updated)
           jobs_modified == c_modified \/ Len(retained) # Len(c_updated)
       IN c_file' = IF jobs_modified THEN retained ELSE c_file
    /\ c_pc' = "sleeping"
    /\ c_tick_now' = 0
    /\ c_updated' = << >>
    /\ c_i' = 0
    /\ c_modified' = FALSE
    /\ UNCHANGED << c_now, c_file0, c_next_tick, c_ticks, c_started, c_eval,
                    c_log,
                    c_added >>

\* agent.run_turn takes long: more than a minute passes before it returns
CronLongRun ==
    /\ c_pc = "running"
    /\ c_now = c_started
    /\ c_now' = c_now + LongRunSecs
    /\ UNCHANGED << c_file, c_file0, c_pc, c_next_tick, c_ticks, c_tick_now,
                    c_updated, c_i, c_modified, c_started, c_eval, c_log,
                    c_added >>

\* the job cron_manage adds: every minute, never run
AddedJob ==
    CronJob("n", CronSchedule("0 * * * * *"), TRUE, FALSE,
            [last_run_at |-> None, retry |-> DefaultRetry])

\* CronManageTool::action_add: load_jobs, push the job, save_jobs
CronManageAdd ==
    /\ c_added = { }
    /\ c_ticks < MaxCronTicks
    /\ c_file' = Append(c_file, AddedJob)
    /\ c_added' = { AddedJob.id }
    /\ UNCHANGED << c_now, c_file0, c_pc, c_next_tick, c_ticks, c_tick_now,
                    c_updated, c_i, c_modified, c_started, c_eval, c_log >>

CronNext ==
    \/ CronClock /\ UNCHANGED << agentVars, procVars, sessVars, toolVars, codecVars, lockVars >>
    \/ CronTick /\ UNCHANGED << agentVars, procVars, sessVars, toolVars, codecVars, lockVars >>
    \/ CronEvaluate /\ UNCHANGED << agentVars, procVars, sessVars, toolVars, codecVars, lockVars >>
    \/ CronRunOk /\ UNCHANGED << agentVars, procVars, sessVars, toolVars, codecVars, lockVars >>
    \/ CronRunErr /\ UNCHANGED << agentVars, procVars, sessVars, toolVars, codecVars, lockVars >>
    \/ CronFinishTick /\ UNCHANGED << agentVars, procVars, sessVars, toolVars, codecVars, lockVars >>

\* the scheduler next to a writer of jobs.json, with runs of any length
BusyCronNext ==
    \/ CronClock /\ UNCHANGED << agentVars, procVars, sessVars, toolVars, codecVars, lockVars >>
    \/ CronTick /\ UNCHANGED << agentVars, procVars, sessVars, toolVars, codecVars, lockVars >>
    \/ CronEvaluate /\ UNCHANGED << agentVars, procVars, sessVars, toolVars, codecVars, lockVars >>
    \/ CronRunOk /\ UNCHANGED << agentVars, procVars, sessVars, toolVars, codecVars, lockVars >>
    \/ CronRunErr /\ UNCHANGED << agentVars, procVars, sessVars, toolVars, codecVars, lockVars >>
    \/ CronFinishTick /\ UNCHANGED << agentVars, procVars, sessVars, toolVars, codecVars, lockVars >>
    \/ CronLongRun /\ UNCHANGED << agentVars, procVars, sessVars, toolVars, codecVars, lockVars >>
    \/ CronManageAdd /\ UNCHANGED << agentVars, procVars, sessVars, toolVars, codecVars, lockVars >>

(***************************************************************************)
(* Specifications.                                                         *)
(***************************************************************************)
SessNext ==
    \/ ClockTick /\ UNCHANGED << agentVars, procVars, cronVars, toolVars, codecVars, lockVars >>
    \/ \E t \in Tasks, key \in Keys, text \in Texts :
          StartMessage(t, key, text) /\ UNCHANGED << agentVars, procVars, cronVars, toolVars, codecVars, lockVars >>
    \/ \E t \in Tasks : GetOrCreateFast(t) /\ UNCHANGED << agentVars, procVars, cronVars, toolVars, codecVars, lockVars >>
    \/ \E t \in Tasks : GetOrCreateSlow(t) /\ UNCHANGED << agentVars, procVars, cronVars, toolVars, codecVars, lockVars >>
    \/ \E t \in Tasks : CheckReset(t) /\ UNCHANGED << agentVars, procVars, cronVars, toolVars, codecVars, lockVars >>
    \/ \E t \in Tasks : ResetSession(t) /\ UNCHANGED << agentVars, procVars, cronVars, toolVars, codecVars, lockVars >>
    \/ \E t \in Tasks : PersistSnapshot(t) /\ UNCHANGED << agentVars, procVars, cronVars, toolVars, codecVars, lockVars >>
    \/ \E t \in Tasks : PersistWrite(t) /\ UNCHANGED << agentVars, procVars, cronVars, toolVars, codecVars, lockVars >>
    \/ \E t \in Tasks : PersistRename(t) /\ UNCHANGED << agentVars, procVars, cronVars, toolVars, codecVars, lockVars >>
    \/ \E t \in Tasks : GetHistory(t) /\ UNCHANGED << agentVars, procVars, cronVars, toolVars, codecVars, lockVars >>
    \/ \E t \in Tasks : TurnErr(t) /\ UNCHANGED << agentVars, procVars, cronVars, toolVars, codecVars, lockVars >>
    \/ \E t \in Tasks : UpdateHistory(t) /\ UNCHANGED << agentVars, procVars, cronVars, toolVars, codecVars, lockVars >>
    \/ \E t \in Tasks, sid \in 1..(s_next_id - 1) :
          DeleteSession(t, sid) /\ UNCHANGED << agentVars, procVars, cronVars, toolVars, codecVars, lockVars >>
    \/ \E t \in Tasks : ClearAll(t) /\ UNCHANGED << agentVars, procVars, cronVars, toolVars, codecVars, lockVars >>

\* the gateway handling direct messages and HTTP messages one at a time, on
\* a store that can be restarted
StoreNext ==
    \/ ClockAdvance /\ UNCHANGED << agentVars, procVars, cronVars, toolVars, codecVars, lockVars >>
    \/ \E sender_id \in Peers, text \in { "hi", "/reset" } :
          StartDirectMessage(1, "telegram", sender_id, text)
             /\ UNCHANGED << agentVars, procVars, cronVars, toolVars, codecVars, lockVars >>
    \/ \E sender_id \in { None } \cup { Some(u) : u \in Peers } :
          StartHttpMessage(1, sender_id) /\ UNCHANGED << agentVars, procVars, cronVars, toolVars, codecVars, lockVars >>
    \/ GetOrCreateFast(1) /\ UNCHANGED << agentVars, procVars, cronVars, toolVars, codecVars, lockVars >>
    \/ GetOrCreateSlow(1) /\ UNCHANGED << agentVars, procVars, cronVars, toolVars, codecVars, lockVars >>
    \/ CheckReset(1) /\ UNCHANGED << agentVars, procVars, cronVars, toolVars, codecVars, lockVars >>
    \/ ResetSession(1) /\ UNCHANGED << agentVars, procVars, cronVars, toolVars, codecVars, lockVars >>
    \/ PersistSnapshot(1) /\ UNCHANGED << agentVars, procVars, cronVars, toolVars, codecVars, lockVars >>
    \/ PersistWrite(1) /\ UNCHANGED << agentVars, procVars, cronVars, toolVars, codecVars, lockVars >>
    \/ PersistRename(1) /\ UNCHANGED << agentVars, procVars, cronVars, toolVars, codecVars, lockVars >>
    \/ GetHistory(1) /\ UNCHANGED << agentVars, procVars, cronVars, toolVars, codecVars, lockVars >>
    \/ TurnErr(1) /\ UNCHANGED << agentVars, procVars, cronVars, toolVars, codecVars, lockVars >>
    \/ UpdateHistory(1) /\ UNCHANGED << agentVars, procVars, cronVars, toolVars, codecVars, lockVars >>
    \/ Restart /\ UNCHANGED << agentVars, procVars, cronVars, toolVars, codecVars, lockVars >>

(***************************************************************************)
(* File tools: read_file, write_file, list_files, cd and send_file, on a   *)
(* file system of directories, files and symbolic links.  A path is the    *)
(* sequence of its components; an absolute path starts with "/".           *)
(***************************************************************************)
Root == << "/" >>

\* ToolContext::workspace and the tools' own `workspace`
WorkspaceDir == << "/", "ws" >>

Dir == [kind |-> "dir", content |-> "", target |-> << >>]

File(content) == [kind |-> "file", content |-> content, target |-> << >>]

Link(target) == [kind |-> "link", content |-> "", target |-> target]

\* the files the machine holds: a workspace and a directory next to it
PlainFs ==
    (Root :> Dir)
    @@ (<< "/", "ws" >> :> Dir)
    @@ (<< "/", "ws", "notes.txt" >> :> File("old"))
    @@ (<< "/", "ws", "sub" >> :> Dir)
    @@ (<< "/", "out" >> :> Dir)
    @@ (<< "/", "out", "secret" >> :> File("secret"))

\* the same with two symbolic links in the workspace that lead out of it
LinkedFs ==
    PlainFs
    @@ (<< "/", "ws", "l" >> :> Link(<< "/", "out", "secret" >>))
    @@ (<< "/", "ws", "dl" >> :> Link(<< "/", "out" >>))

\* the `path` parameters a model may pass
ToolPaths ==
    { << >>, << "notes.txt" >>, << "sub" >>, << "sub", "new.txt" >>,
      << ".." >>, << "..", "out", "secret" >>, << "..", "new", "f.txt" >>,
      << "l" >>, << "dl" >>, << "dl", "secret" >>, << "/", "out", "secret" >> }

\* Path::join: an absolute path replaces the base
join(base, path) ==
    IF path # << >> /\ Head(path) = "/" THEN path ELSE base \o path

\* Path::parent
parent(path) ==
    IF Len(path) <= 1 THEN None ELSE Some(SubSeq(path, 1, Len(path) - 1))

\* Path::starts_with: component-wise prefix
starts_with(path, base) ==
    /\ Len(path) >= Len(base)
    /\ SubSeq(path, 1, Len(base)) = base

RECURSIVE Walk(_, _, _)
\* path resolution as the system does it: "..", "." and symbolic links are
\* followed component by component; None when a component is missing or a
\* file stands where a directory is needed
Walk(fs, cur, rest) ==
    IF rest = << >> THEN Some(cur)
    ELSE IF fs[cur].kind # "dir" THEN None
    ELSE LET c == Head(rest)
             next == Append(cur, c)
         IN IF c = "/" THEN Walk(fs, Root, Tail(rest))
            ELSE IF c = "." THEN Walk(fs, cur, Tail(rest))
            ELSE IF c = ".."
                 THEN Walk(fs, IF cur = Root THEN Root
                               ELSE SubSeq(cur, 1, Len(cur) - 1), Tail(rest))
            ELSE IF next \notin DOMAIN fs THEN None
            ELSE IF fs[next].kind = "link"
                 THEN Walk(fs, fs[next].target, Tail(rest))
            ELSE Walk(fs, next, Tail(rest))

\* Path::canonicalize of an absolute path: Some(canonical path) or None
canonicalize(fs, path) == Walk(fs, Root, path)

RECURSIVE MkdirWalk(_, _, _, _)
\* std::fs::create_dir_all: every missing directory on the way is created
\* where the system resolves it; fails on a file in the way
MkdirWalk(fs, cur, rest, created) ==
    IF rest = << >> THEN [fs |-> fs, ok |-> fs[cur].kind = "dir", created |-> created]
    ELSE IF fs[cur].kind # "dir" THEN [fs |-> fs, ok |-> FALSE, created |-> created]
    ELSE LET c == Head(rest)
             next == Append(cur, c)
         IN IF c = "/" THEN MkdirWalk(fs, Root, Tail(rest), created)
            ELSE IF c = "." THEN MkdirWalk(fs, cur, Tail(rest), created)
            ELSE IF c = ".."
                 THEN MkdirWalk(fs, IF cur = Root THEN Root
                                    ELSE SubSeq(cur, 1, Len(cur) - 1),
                                Tail(rest), created)
            ELSE IF next \notin DOMAIN fs
                 THEN MkdirWalk(fs @@ (next :> Dir), next, Tail(rest),
                                created \cup { next })
            ELSE IF fs[next].kind = "link"
                 THEN MkdirWalk(fs, fs[next].target, Tail(rest), created)
            ELSE MkdirWalk(fs, next, Tail(rest), created)

create_dir_all(fs, path) == MkdirWalk(fs, Root, path, {})

\* std::fs::write: the parent is resolved, a symbolic link in the last
\* component is followed, the file is created or replaced
write(fs, path, content) ==
    LET par == Walk(fs, Root, SubSeq(path, 1, Len(path) - 1))
        last == path[Len(path)]
        named == Append(par[1], last)
        target == IF named \in DOMAIN fs /\ fs[named].kind = "link"
                  THEN fs[named].target
                  ELSE named
    IN IF \/ par = None
          \/ last \in { "/", ".", ".." }
          \/ fs[par[1]].kind # "dir"
          \/ (target \in DOMAIN fs /\ fs[target].kind = "dir")
       THEN [fs |-> fs, ok |-> FALSE, written |-> {}]
       ELSE [fs |-> [p \in DOMAIN fs \cup { target } |->
                        IF p = target THEN File(content) ELSE fs[p]],
             ok |-> TRUE, written |-> { target }]

\* workspace.canonicalize()
workspace_canonical == canonicalize(f_fs, WorkspaceDir)

NoCall == [tool |-> "none", path |-> << >>, result |-> "none", touched |-> {}]

ToolInit ==
    /\ f_fs \in { PlainFs, LinkedFs }
    /\ f_cwd = WorkspaceDir
    /\ f_last = NoCall
    /\ f_calls = 0

\* the file tools when they are not being examined
ToolIdle ==
    /\ f_fs = PlainFs
    /\ f_cwd = WorkspaceDir
    /\ f_last = NoCall
    /\ f_calls = 0

\* ReadFileTool::execute
ReadFile(path) ==
    LET full_path == join(WorkspaceDir, path)
        canonical == canonicalize(f_fs, full_path)
        result ==
            IF canonical = None THEN "cannot_resolve"
            ELSE IF workspace_canonical = None THEN "cannot_resolve_workspace"
            ELSE IF ~starts_with(canonical[1], workspace_canonical[1]) THEN "outside"
            ELSE IF f_fs[canonical[1]].kind = "file" THEN "ok"
            ELSE "failed"
    IN /\ f_calls \in 0..(MaxToolCalls - 1)
       /\ f_calls' = f_calls + 1
       /\ f_last' = [tool |-> "read_file", path |-> path, result |-> result,
                     touched |-> IF result \in { "ok", "failed" }
                                 THEN { [op |-> "read", path |-> canonical[1]] }
                                 ELSE {}]
       /\ UNCHANGED << f_fs, f_cwd >>

\* WriteFileTool::execute
WriteFile(path, content) ==
    LET full_path == join(WorkspaceDir, path)
        par == parent(full_path)
        made == IF par = None
                THEN [fs |-> f_fs, ok |-> TRUE, created |-> {}]
                ELSE create_dir_all(f_fs, par[1])
        parent_canonical == IF par = None THEN None ELSE canonicalize(made.fs, par[1])
        mkdirs == { [op |-> "mkdir", path |-> p] : p \in made.created }
        out == write(made.fs, full_path, content)
    IN /\ f_calls \in 0..(MaxToolCalls - 1)
       /\ f_calls' = f_calls + 1
       /\ IF ~made.ok
          THEN /\ f_fs' = made.fs
               /\ f_last' = [tool |-> "write_file", path |-> path,
                             result |-> "mkdir_failed", touched |-> mkdirs]
          ELSE IF /\ parent_canonical # None
                  /\ workspace_canonical # None
                  /\ ~starts_with(parent_canonical[1], workspace_canonical[1])
          THEN /\ f_fs' = made.fs
               /\ f_last' = [tool |-> "write_file", path |-> path,
                             result |-> "outside", touched |-> mkdirs]
          ELSE /\ f_fs' = out.fs
               /\ f_last' = [tool |-> "write_file", path |-> path,
                             result |-> IF out.ok THEN "ok" ELSE "failed",
                             touched |-> mkdirs \cup
                                 { [op |-> "write", path |-> p] : p \in out.written }]
       /\ UNCHANGED f_cwd

\* ListFilesTool::execute
ListFiles(path) ==
    LET full_path == join(f_cwd, path)
        canonical == canonicalize(f_fs, full_path)
        result ==
            IF canonical = None THEN "cannot_resolve"
            ELSE IF workspace_canonical = None THEN "cannot_resolve_workspace"
            ELSE IF ~starts_with(canonical[1], workspace_canonical[1]) THEN "outside"
            ELSE IF f_fs[canonical[1]].kind = "dir" THEN "ok"
            ELSE "failed"
    IN /\ f_calls \in 0..(MaxToolCalls - 1)
       /\ f_calls' = f_calls + 1
       /\ f_last' = [tool |-> "list_files", path |-> path, result |-> result,
                     touched |-> IF result \in { "ok", "failed" }
                                 THEN { [op |-> "list", path |-> canonical[1]] }
                                 ELSE {}]
       /\ UNCHANGED << f_fs, f_cwd >>

\* a variant of cd that moves before it checks the workspace boundary
Cd_unchecked(path) ==
    LET target == join(f_cwd, path)
        canonical == canonicalize(f_fs, target)
        result ==
            IF canonical = None THEN "cannot_resolve"
            ELSE IF workspace_canonical = None THEN "cannot_resolve_workspace"
            ELSE IF ~starts_with(canonical[1], workspace_canonical[1]) THEN "outside"
            ELSE IF f_fs[canonical[1]].kind # "dir" THEN "not_a_directory"
            ELSE "ok"
    IN /\ f_calls \in 0..(MaxToolCalls - 1)
       /\ f_calls' = f_calls + 1
       /\ f_cwd' = IF canonical # None /\ f_fs[canonical[1]].kind = "dir"
                   THEN canonical[1] ELSE f_cwd
       /\ f_last' = [tool |-> "cd", path |-> path, result |-> result,
                     touched |-> {}]
       /\ UNCHANGED f_fs

\* CdTool::execute
Cd(path) ==
    LET target == join(f_cwd, path)
        canonical == canonicalize(f_fs, target)
        result ==
            IF canonical = None THEN "cannot_resolve"
            ELSE IF workspace_canonical = None THEN "cannot_resolve_workspace"
            ELSE IF ~starts_with(canonical[1], workspace_canonical[1]) THEN "outside"
            ELSE IF f_fs[canonical[1]].kind # "dir" THEN "not_a_directory"
            ELSE "ok"
    IN /\ f_calls \in 0..(MaxToolCalls - 1)
       /\ f_calls' = f_calls + 1
       /\ f_cwd' = IF result = "ok" THEN canonical[1] ELSE f_cwd
       /\ f_last' = [tool |-> "cd", path |-> path, result |-> result,
                     touched |-> {}]
       /\ UNCHANGED f_fs

\* SendFileTool::execute
SendFile(path) ==
    LET full_path == join(f_cwd, path)
        canonical == canonicalize(f_fs, full_path)
        result ==
            IF path = << >> THEN "path_required"
            ELSE IF canonical = None THEN "cannot_resolve"
            ELSE IF workspace_canonical = None THEN "cannot_resolve_workspace"
            ELSE IF ~starts_with(canonical[1], workspace_canonical[1]) THEN "outside"
            ELSE IF f_fs[canonical[1]].kind # "file" THEN "not_a_file"
            ELSE "ok"
    IN /\ f_calls \in 0..(MaxToolCalls - 1)
       /\ f_calls' = f_calls + 1
       /\ f_last' = [tool |-> "send_file", path |-> path, result |-> result,
                     touched |-> IF result \in { "ok", "not_a_file" }
                                 THEN { [op |-> "stat", path |-> canonical[1]] }
                                 ELSE {}]
       /\ UNCHANGED << f_fs, f_cwd >>

\* a new turn begins: run_turn_with_history makes a fresh cwd at the workspace
NewTurn ==
    /\ f_calls > 0
    /\ f_cwd' = WorkspaceDir
    /\ f_last' = NoCall
    /\ f_calls' = 0
    /\ UNCHANGED f_fs

ToolNext ==
    \/ \E path \in ToolPaths :
          ReadFile(path) /\ UNCHANGED << agentVars, procVars, sessVars, cronVars, codecVars, lockVars >>
    \/ \E path \in ToolPaths :
          WriteFile(path, "new") /\ UNCHANGED << agentVars, procVars, sessVars, cronVars, codecVars, lockVars >>
    \/ \E path \in ToolPaths :
          ListFiles(path) /\ UNCHANGED << agentVars, procVars, sessVars, cronVars, codecVars, lockVars >>
    \/ \E path \in ToolPaths :
          Cd(path) /\ UNCHANGED << agentVars, procVars, sessVars, cronVars, codecVars, lockVars >>
    \/ \E path \in ToolPaths :
          SendFile(path) /\ UNCHANGED << agentVars, procVars, sessVars, cronVars, codecVars, lockVars >>
    \/ NewTurn /\ UNCHANGED << agentVars, procVars, sessVars, cronVars, codecVars, lockVars >>

(***************************************************************************)
(* llm::Item and its JSON form (impl Serialize / Deserialize for Item), as *)
(* used for transcript lines and request bodies.  A JSON value is an       *)
(* object of fields or a scalar; a field holds a string or a non-string.   *)
(***************************************************************************)
JStr(s) == [t |-> "string", s |-> s]

\* a field value that is not a string (null, a number, an array)
JNonStr == [t |-> "other", s |-> ""]

JObject(fields) == [kind |-> "object", fields |-> fields]

\* a JSON value that is not an object
JScalar == [kind |-> "scalar", fields |-> [x \in { } |-> JNonStr]]

\* Value::get(key).and_then(as_str)
get_str(value, key) ==
    IF value.kind = "object" /\ key \in DOMAIN value.fields
          /\ value.fields[key].t = "string"
    THEN Some(value.fields[key].s)
    ELSE None

\* str_field: the string under the key, "" when absent or not a string
str_field(value, key) ==
    IF get_str(value, key) # None THEN get_str(value, key)[1] ELSE ""

Roles == { "user", "assistant", "system" }

ItemMessage(role, content) ==
    [variant |-> "Message",
     fields |-> ("role" :> role) @@ ("content" :> content),
     value |-> JScalar]

ItemFunctionCall(id, call_id, name, arguments) ==
    [variant |-> "FunctionCall",
     fields |-> ("id" :> id) @@ ("call_id" :> call_id) @@ ("name" :> name)
                    @@ ("arguments" :> arguments),
     value |-> JScalar]

ItemFunctionCallOutput(call_id, output) ==
    [variant |-> "FunctionCallOutput",
     fields |-> ("call_id" :> call_id) @@ ("output" :> output),
     value |-> JScalar]

ItemReasoning(value) ==
    [variant |-> "Reasoning", fields |-> [x \in { } |-> ""], value |-> value]

ItemOther(value) ==
    [variant |-> "Other", fields |-> [x \in { } |-> ""], value |-> value]

\* impl Serialize for Item
serialize(item) ==
    CASE item.variant = "Message" ->
            JObject(("type" :> JStr("message"))
                    @@ ("role" :> JStr(item.fields["role"]))
                    @@ ("content" :> JStr(item.fields["content"])))
      [] item.variant = "FunctionCall" ->
            JObject(("type" :> JStr("function_call"))
                    @@ ("id" :> JStr(item.fields["id"]))
                    @@ ("call_id" :> JStr(item.fields["call_id"]))
                    @@ ("name" :> JStr(item.fields["name"]))
                    @@ ("arguments" :> JStr(item.fields["arguments"])))
      [] item.variant = "FunctionCallOutput" ->
            JObject(("type" :> JStr("function_call_output"))
                    @@ ("call_id" :> JStr(item.fields["call_id"]))
                    @@ ("output" :> JStr(item.fields["output"])))
      [] OTHER -> item.value

\* the result of a failed parse
ParseError == [ok |-> FALSE, item |-> ItemOther(JScalar)]

Parsed(item) == [ok |-> TRUE, item |-> item]

\* a variant that keeps items typed "reasoning" as Other
deserialize_no_reasoning(value) ==
    LET item_type == str_field(value, "type")
    IN CASE item_type = "message" ->
               IF get_str(value, "role") # None /\ get_str(value, "role")[1] \in Roles
               THEN Parsed(ItemMessage(get_str(value, "role")[1],
                                       str_field(value, "content")))
               ELSE ParseError
         [] item_type = "function_call" ->
               Parsed(ItemFunctionCall(str_field(value, "id"),
                                       str_field(value, "call_id"),
                                       str_field(value, "name"),
                                       str_field(value, "arguments")))
         [] item_type = "function_call_output" ->
               Parsed(ItemFunctionCallOutput(str_field(value, "call_id"),
                                             str_field(value, "output")))
         [] OTHER -> Parsed(ItemOther(value))

\* impl Deserialize for Item: dispatch on the "type" string of the value
deserialize(value) ==
    LET item_type == str_field(value, "type")
    IN CASE item_type = "message" ->
               IF get_str(value, "role") # None /\ get_str(value, "role")[1] \in Roles
               THEN Parsed(ItemMessage(get_str(value, "role")[1],
                                       str_field(value, "content")))
               ELSE ParseError
         [] item_type = "function_call" ->
               Parsed(ItemFunctionCall(str_field(value, "id"),
                                       str_field(value, "call_id"),
                                       str_field(value, "name"),
                                       str_field(value, "arguments")))
         [] item_type = "function_call_output" ->
               Parsed(ItemFunctionCallOutput(str_field(value, "call_id"),
                                             str_field(value, "output")))
         [] item_type = "reasoning" -> Parsed(ItemReasoning(value))
         [] OTHER -> Parsed(ItemOther(value))

\* the JSON values a Reasoning or Other item may hold: a type tag or none,
\* next to no other field, the fields of a reasoning item or those of a message
OpaqueValues ==
    LET tags == { JStr("reasoning"), JStr("web_search_call"), JStr("message"),
                  JStr("function_call"), JStr("function_call_output"),
                  JStr(""), JNonStr }
        bodies == { [x \in { } |-> JNonStr],
                    ("id" :> JStr("rs_1")) @@ ("summary" :> JNonStr),
                    ("role" :> JStr("user")) @@ ("content" :> JStr("hi")) }
    IN { JObject(("type" :> tag) @@ body) : tag \in tags, body \in bodies }
       \cup { JObject(body) : body \in bodies }
       \cup { JScalar }

\* the items of a run
CodecItems ==
    { ItemMessage(role, content) : role \in Roles, content \in { "", "hi" } }
    \cup { ItemFunctionCall(id, "call_1", "exec", arguments) :
              id \in { "", "fc_1" }, arguments \in { "", "{}" } }
    \cup { ItemFunctionCallOutput("call_1", output) : output \in { "", "done" } }
    \cup { ItemReasoning(value) : value \in OpaqueValues }
    \cup { ItemOther(value) : value \in OpaqueValues }

CodecInit ==
    /\ j_item \in CodecItems
    /\ j_json = None
    /\ j_back = None
    /\ j_loads = 0

\* the codec when it is not being examined
CodecIdle ==
    /\ j_item = ItemMessage("user", "")
    /\ j_json = None
    /\ j_back = None
    /\ j_loads = 0

\* append_transcript: serde_json::to_string(item)
SerializeItem ==
    /\ j_json = None
    /\ j_json' = Some(serialize(j_item))
    /\ UNCHANGED << j_item, j_back, j_loads >>

\* load_transcript: serde_json::from_str(line)
DeserializeItem ==
    /\ j_json # None
    /\ j_back = None
    /\ j_back' = Some(deserialize(j_json[1]))
    /\ UNCHANGED << j_item, j_json, j_loads >>

\* the loaded item is the one the session holds from now on
HoldLoaded ==
    /\ j_back # None
    /\ j_back[1].ok
    /\ j_loads < MaxLoads
    /\ j_item' = j_back[1].item
    /\ j_json' = None
    /\ j_back' = None
    /\ j_loads' = j_loads + 1

CodecNext ==
    \/ SerializeItem /\ UNCHANGED << agentVars, procVars, sessVars, cronVars, toolVars, lockVars >>
    \/ DeserializeItem /\ UNCHANGED << agentVars, procVars, sessVars, cronVars, toolVars, lockVars >>
    \/ HoldLoaded /\ UNCHANGED << agentVars, procVars, sessVars, cronVars, toolVars, lockVars >>

(***************************************************************************)
(* The locks of the session store: the RwLock of `sessions`, the RwLock of *)
(* `key_index` and the Mutex of every session.  tokio serves the requests  *)
(* for a lock in the order they were made: a write request waits for every *)
(* holder, and a read request made after it waits behind it.  The session  *)
(* of key k has the id k.                                                  *)
(***************************************************************************)
LockTasks == 1 .. MaxLockTasks

LockSessions == { "a", "b" }

LockNames == { "sessions", "key_index" } \cup LockSessions

StoreOps ==
    { "get_or_create", "get_history", "update_history", "check_reset",
      "reset", "list", "delete", "clear_all" }

\* a lock nobody holds or waits for; writer 0 is no writer
FreeLock ==
    [readers |-> [t \in LockTasks |-> 0], writer |-> 0, queue |-> << >>]

\* the semaphore of a lock hands it to the requests at the head of its queue
RECURSIVE Grant(_)
Grant(l) ==
    IF l.queue = << >> THEN l
    ELSE LET h == Head(l.queue)
         IN IF h.mode = "r" /\ l.writer = 0
            THEN Grant([l EXCEPT !.readers[h.t] = @ + 1, !.queue = Tail(@)])
            ELSE IF /\ h.mode = "w"
                    /\ l.writer = 0
                    /\ \A t \in LockTasks : l.readers[t] = 0
            THEN [l EXCEPT !.writer = h.t, !.queue = Tail(@)]
            ELSE l

\* read().await, write().await, lock().await: the request joins the queue
Request(l, t, mode) ==
    Grant([l EXCEPT !.queue = Append(@, [t |-> t, mode |-> mode])])

\* the guards of task t on the lock are dropped
Release(l, t) ==
    Grant([l EXCEPT !.readers[t] = 0,
                    !.writer = IF @ = t THEN 0 ELSE @])

\* the locks after task t dropped its guards on the locks `names`
Dropped(names, t) ==
    [n \in LockNames |-> IF n \in names THEN Release(l_lock[n], t)
                         ELSE l_lock[n]]

\* task t has a request in the queue of a lock
Waiting(t) ==
    \E n \in LockNames :
        \E i \in 1 .. Len(l_lock[n].queue) : l_lock[n].queue[i].t = t

NoWant == [lock |-> "", mode |-> ""]

IdleCaller ==
    [op |-> "", sid |-> "", pc |-> "idle", want |-> NoWant,
     requested |-> FALSE, todo |-> { }]

\* the task goes on to the place pc, where it first asks for a lock
Goto(task, pc, lock, mode) ==
    [task EXCEPT !.pc = pc, !.want = [lock |-> lock, mode |-> mode],
                 !.requested = FALSE]

\* the task goes on to walk over the sessions in `todo`
Walk_sessions(task, todo) ==
    [task EXCEPT !.pc = "persist", !.want = NoWant, !.requested = FALSE,
                 !.todo = todo]

\* task t is at the place pc and has been granted the lock it asked for
Ready(t, pc) ==
    /\ l_task[t].pc = pc
    /\ l_task[t].requested
    /\ ~Waiting(t)

LockInit ==
    /\ l_lock = [n \in LockNames |-> FreeLock]
    /\ l_task = [t \in LockTasks |-> IdleCaller]
    /\ l_exist = { }
    /\ l_index = { }

\* the store when it is not being examined
LockIdle == LockInit

\* a task calls an operation of the SessionStore
StoreCall(t, op, sid) ==
    /\ l_task[t].pc = "idle"
    /\ l_task' = [l_task EXCEPT ![t] =
          LET task == [IdleCaller EXCEPT
                          !.op = op,
                          !.sid = IF op \in { "list", "clear_all" } THEN ""
                                  ELSE sid]
          IN IF op = "get_or_create"
             THEN Goto(task, "fast", "key_index", "r")
             ELSE IF op \in { "delete", "clear_all" }
             THEN Goto(task, "write_sessions", "sessions", "w")
             ELSE IF op = "list"
             THEN Goto(task, "all_sessions", "sessions", "r")
             ELSE Goto(task, "read_sessions", "sessions", "r")]
    /\ UNCHANGED << l_lock, l_exist, l_index >>

\* the call of read(), write() or lock() the task has arrived at
LockAwait(t) ==
    /\ l_task[t].want # NoWant
    /\ ~l_task[t].requested
    /\ l_lock' = [l_lock EXCEPT ![l_task[t].want.lock] =
                     Request(@, t, l_task[t].want.mode)]
    /\ l_task' = [l_task EXCEPT ![t].requested = TRUE]
    /\ UNCHANGED << l_exist, l_index >>

\* get_or_create, fast path: look the key up under the read lock of key_index
KeyIndexRead(t) ==
    /\ Ready(t, "fast")
    /\ l_lock' = Dropped({ "key_index" }, t)
    /\ l_task' = [l_task EXCEPT ![t] =
          IF l_task[t].sid \in l_index THEN IdleCaller
          ELSE Goto(@, "write_sessions", "sessions", "w")]
    /\ UNCHANGED << l_exist, l_index >>

\* get_or_create, delete, clear_all: with the write lock of sessions held,
\* ask for the write lock of key_index
SessionsWrite(t) ==
    /\ Ready(t, "write_sessions")
    /\ l_task' = [l_task EXCEPT ![t] = Goto(@, "write_index", "key_index", "w")]
    /\ UNCHANGED << l_lock, l_exist, l_index >>

\* get_or_create, slow path: double-check, insert, then persist_meta_inner
GetOrCreateInsert(t) ==
    /\ Ready(t, "write_index")
    /\ l_task[t].op = "get_or_create"
    /\ IF l_task[t].sid \in l_index
       THEN /\ l_lock' = Dropped({ "key_index", "sessions" }, t)
            /\ l_task' = [l_task EXCEPT ![t] = IdleCaller]
            /\ UNCHANGED << l_exist, l_index >>
       ELSE /\ l_exist' = l_exist \cup { l_task[t].sid }
            /\ l_index' = l_index \cup { l_task[t].sid }
            /\ l_task' = [l_task EXCEPT ![t] = Walk_sessions(@, l_exist')]
            /\ UNCHANGED l_lock

\* delete: remove the session from the map, then lock the removed session
DeleteRemove(t) ==
    /\ Ready(t, "write_index")
    /\ l_task[t].op = "delete"
    /\ IF l_task[t].sid \in l_exist
       THEN /\ l_exist' = l_exist \ { l_task[t].sid }
            /\ l_task' = [l_task EXCEPT ![t] =
                             Goto(@, "removed_session", l_task[t].sid, "w")]
       ELSE /\ l_task' = [l_task EXCEPT ![t] = Walk_sessions(@, l_exist)]
            /\ UNCHANGED l_exist
    /\ UNCHANGED << l_lock, l_index >>

\* delete: with the removed session locked, remove its key from the index,
\* then persist_meta_inner
DeleteLocked(t) ==
    /\ Ready(t, "removed_session")
    /\ l_lock' = Dropped({ l_task[t].sid }, t)
    /\ l_index' = l_index \ { l_task[t].sid }
    /\ l_task' = [l_task EXCEPT ![t] = Walk_sessions(@, l_exist)]
    /\ UNCHANGED l_exist

\* clear_all: clear both maps, then persist_meta_inner
ClearAllClear(t) ==
    /\ Ready(t, "write_index")
    /\ l_task[t].op = "clear_all"
    /\ l_exist' = { }
    /\ l_index' = { }
    /\ l_task' = [l_task EXCEPT ![t] = Walk_sessions(@, { })]
    /\ UNCHANGED l_lock

\* get_history, update_history, check_reset, reset: look the session up under
\* the read lock of sessions
SessionsRead(t) ==
    /\ Ready(t, "read_sessions")
    /\ IF l_task[t].sid \in l_exist
       THEN /\ l_task' = [l_task EXCEPT ![t] =
                             Goto(@, "session", l_task[t].sid, "w")]
            /\ UNCHANGED l_lock
       ELSE /\ l_lock' = Dropped({ "sessions" }, t)
            /\ l_task' = [l_task EXCEPT ![t] = IdleCaller]
    /\ UNCHANGED << l_exist, l_index >>

\* a variant that keeps the read lock of sessions while it calls persist_meta
SessionLocked_keeps_read(t) ==
    /\ Ready(t, "session")
    /\ l_lock' = Dropped({ l_task[t].sid }, t)
    /\ \E triggered \in BOOLEAN :
          l_task' = [l_task EXCEPT ![t] =
              IF l_task[t].op = "get_history" THEN IdleCaller
              ELSE IF l_task[t].op \in { "update_history", "reset" }
              THEN Goto(@, "all_sessions", "sessions", "r")
              ELSE IF triggered
              THEN Goto([@ EXCEPT !.op = "reset"], "read_sessions",
                        "sessions", "r")
              ELSE IdleCaller]
    /\ UNCHANGED << l_exist, l_index >>

\* get_history, update_history, check_reset, reset: work on the locked
\* session, drop the session and the read lock of sessions, then return,
\* call persist_meta, or (check_reset) call reset
SessionLocked(t) ==
    /\ Ready(t, "session")
    /\ l_lock' = Dropped({ l_task[t].sid, "sessions" }, t)
    /\ \E triggered \in BOOLEAN :
          l_task' = [l_task EXCEPT ![t] =
              IF l_task[t].op = "get_history" THEN IdleCaller
              ELSE IF l_task[t].op \in { "update_history", "reset" }
              THEN Goto(@, "all_sessions", "sessions", "r")
              ELSE IF triggered
              THEN Goto([@ EXCEPT !.op = "reset"], "read_sessions",
                        "sessions", "r")
              ELSE IdleCaller]
    /\ UNCHANGED << l_exist, l_index >>

\* persist_meta and list: with the read lock of sessions held, walk over
\* sessions.values()
ReadAll(t) ==
    /\ Ready(t, "all_sessions")
    /\ l_task' = [l_task EXCEPT ![t] = Walk_sessions(@, l_exist)]
    /\ UNCHANGED << l_lock, l_exist, l_index >>

\* persist_meta_inner and list: the next session of the walk, in the order
\* of the HashMap; after the last one the guards are dropped on return
WalkNext(t) ==
    /\ l_task[t].pc = "persist"
    /\ IF l_task[t].todo = { }
       THEN /\ l_lock' = Dropped({ "key_index", "sessions" }, t)
            /\ l_task' = [l_task EXCEPT ![t] = IdleCaller]
       ELSE /\ \E s \in l_task[t].todo :
                  l_task' = [l_task EXCEPT ![t] = Goto(@, "session_meta", s, "w")]
            /\ UNCHANGED l_lock
    /\ UNCHANGED << l_exist, l_index >>

\* persist_meta_inner and list: clone the meta of the locked session
WalkSession(t) ==
    /\ Ready(t, "session_meta")
    /\ l_lock' = Dropped({ l_task[t].want.lock }, t)
    /\ l_task' = [l_task EXCEPT ![t] =
                     Walk_sessions(@, l_task[t].todo \ { l_task[t].want.lock })]
    /\ UNCHANGED << l_exist, l_index >>

\* what task t does once it has called an operation
LockStep(t) ==
    \/ LockAwait(t)
    \/ KeyIndexRead(t)
    \/ SessionsWrite(t)
    \/ GetOrCreateInsert(t)
    \/ DeleteRemove(t)
    \/ DeleteLocked(t)
    \/ ClearAllClear(t)
    \/ SessionsRead(t)
    \/ SessionLocked(t)
    \/ ReadAll(t)
    \/ WalkNext(t)
    \/ WalkSession(t)

LockNext ==
    \/ \E t \in LockTasks, op \in StoreOps, sid \in LockSessions :
          StoreCall(t, op, sid) /\ UNCHANGED << agentVars, procVars, sessVars, cronVars, toolVars, codecVars >>
    \/ \E t \in LockTasks : LockAwait(t) /\ UNCHANGED << agentVars, procVars, sessVars, cronVars, toolVars, codecVars >>
    \/ \E t \in LockTasks : KeyIndexRead(t) /\ UNCHANGED << agentVars, procVars, sessVars, cronVars, toolVars, codecVars >>
    \/ \E t \in LockTasks : SessionsWrite(t) /\ UNCHANGED << agentVars, procVars, sessVars, cronVars, toolVars, codecVars >>
    \/ \E t \in LockTasks : GetOrCreateInsert(t) /\ UNCHANGED << agentVars, procVars, sessVars, cronVars, toolVars, codecVars >>
    \/ \E t \in LockTasks : DeleteRemove(t) /\ UNCHANGED << agentVars, procVars, sessVars, cronVars, toolVars, codecVars >>
    \/ \E t \in LockTasks : DeleteLocked(t) /\ UNCHANGED << agentVars, procVars, sessVars, cronVars, toolVars, codecVars >>
    \/ \E t \in LockTasks : ClearAllClear(t) /\ UNCHANGED << agentVars, procVars, sessVars, cronVars, toolVars, codecVars >>
    \/ \E t \in LockTasks : SessionsRead(t) /\ UNCHANGED << agentVars, procVars, sessVars, cronVars, toolVars, codecVars >>
    \/ \E t \in LockTasks : SessionLocked(t) /\ UNCHANGED << agentVars, procVars, sessVars, cronVars, toolVars, codecVars >>
    \/ \E t \in LockTasks : ReadAll(t) /\ UNCHANGED << agentVars, procVars, sessVars, cronVars, toolVars, codecVars >>
    \/ \E t \in LockTasks : WalkNext(t) /\ UNCHANGED << agentVars, procVars, sessVars, cronVars, toolVars, codecVars >>
    \/ \E t \in LockTasks : WalkSession(t) /\ UNCHANGED << agentVars, procVars, sessVars, cronVars, toolVars, codecVars >>

\* the start of a run that examines one component: the others stay idle
AgentSpecInit == AgentInit /\ ProcIdle /\ SessIdle /\ CronIdle /\ ToolIdle /\ CodecIdle /\ LockIdle

AgentSpec == AgentSpecInit /\ [][AgentNext]_vars

ProcSpecInit == ProcInit /\ AgentIdle /\ SessIdle /\ CronIdle /\ ToolIdle /\ CodecIdle /\ LockIdle

ProcSpec == ProcSpecInit /\ [][ProcNext]_vars

SessSpecInit == SessInit /\ AgentIdle /\ ProcIdle /\ CronIdle /\ ToolIdle /\ CodecIdle /\ LockIdle

SessSpec == SessSpecInit /\ [][SessNext]_vars

StoreSpecInit == StoreInit /\ AgentIdle /\ ProcIdle /\ CronIdle /\ ToolIdle /\ CodecIdle /\ LockIdle

StoreSpec == StoreSpecInit /\ [][StoreNext]_vars

CronSpecInit == CronInit /\ AgentIdle /\ ProcIdle /\ SessIdle /\ ToolIdle /\ CodecIdle /\ LockIdle

CronSpec == CronSpecInit /\ [][CronNext]_vars

BusyCronSpec == CronSpecInit /\ [][BusyCronNext]_vars

ToolSpecInit == ToolInit /\ AgentIdle /\ ProcIdle /\ SessIdle /\ CronIdle /\ CodecIdle /\ LockIdle

ToolSpec == ToolSpecInit /\ [][ToolNext]_vars

CodecSpecInit == CodecInit /\ AgentIdle /\ ProcIdle /\ SessIdle /\ CronIdle /\ ToolIdle /\ LockIdle

CodecSpec == CodecSpecInit /\ [][CodecNext]_vars

LockSpecInit == LockInit /\ AgentIdle /\ ProcIdle /\ SessIdle /\ CronIdle /\ ToolIdle /\ CodecIdle

LockSpec == LockSpecInit /\ [][LockNext]_vars

\* the runtime schedules every task that can run
FairLockSpec ==
    /\ LockSpec
    /\ \A t \in LockTasks : WF_lockVars(LockStep(t))

\* the runtime schedules every spawned task that can run, and time passes
FairProcSpec ==
    /\ ProcSpec
    /\ WF_procVars(\E stream \in Streams : ReaderTask(stream))
    /\ WF_procVars(YieldCompleted)
    /\ WF_procVars(ReturnCompleted)
    /\ WF_procVars(YieldTimeout)
    /\ WF_procVars(WatcherLock)
    /\ WF_procVars(WatcherRecord)
    /\ WF_procVars(Tick)
    /\ WF_procVars(WatchdogWake)
    /\ WF_procVars(WatchdogKill)
    /\ WF_procVars(ChildExit)

KillSpec == ProcSpecInit /\ [][KillNext]_vars

\* the runtime schedules every spawned task and every tool call that can run
FairKillSpec ==
    /\ KillSpec
    /\ WF_procVars(\E stream \in Streams : ReaderTask(stream))
    /\ WF_procVars(YieldCompleted)
    /\ WF_procVars(ReturnCompleted)
    /\ WF_procVars(YieldTimeout)
    /\ WF_procVars(WatcherLock)
    /\ WF_procVars(WatcherRecord)
    /\ WF_procVars(Tick)
    /\ WF_procVars(WatchdogWake)
    /\ WF_procVars(WatchdogKill)
    /\ WF_procVars(ChildExit)
    /\ WF_procVars(PollOutput(2))
    /\ WF_procVars(PollRemove(2))
    /\ WF_procVars(\E ok \in BOOLEAN : KillChild(1, ok))
    /\ WF_procVars(KillRemove(1))

(***************************************************************************)
(* Claims about the agent turn engine.                                     *)
(***************************************************************************)
IsAssistantMessage(it) == it.type = "message" /\ it.role = "assistant"

\* every FunctionCall of h is answered by a FunctionCallOutput with its
\* call_id before the next assistant Message
CallsAnswered(h) ==
    \A i \in 1..Len(h) :
        h[i].type = "function_call" =>
            \E j \in (i + 1)..Len(h) :
                /\ h[j].type = "function_call_output"
                /\ h[j].call_id = h[i].call_id
                /\ \A k \in (i + 1)..(j - 1) : ~IsAssistantMessage(h[k])

\* C3: in every history returned by run_turn_with_history each FunctionCall
\* is followed by a FunctionCallOutput with the same call_id before the next
\* assistant Message appears, for every shape of model response.
C3_CallsAnsweredBeforeMessage ==
    (a_pc = "done" /\ a_result = "ok") => CallsAnswered(a_history)

\* C4: the input of iteration 0 is only the new user message when a previous
\* response id is supplied and the full history otherwise; the input of every
\* iteration i > 0 is exactly the FunctionCallOutputs produced in iteration
\* i-1; every request after the first carries the id of the preceding response.
C4_InputChaining ==
    \A i \in 1..Len(a_requests) :
        LET r == a_requests[i]
        IN /\ r.iteration = i - 1
           /\ i = 1 =>
                /\ r.input = IF a_args.previous_response_id # None
                             THEN << user_item >>
                             ELSE Append(a_args.history, user_item)
                /\ r.previous_response_id = a_args.previous_response_id
           /\ i > 1 =>
                /\ r.input = a_produced[i - 1]
                /\ r.input # << >>
                /\ \A k \in 1..Len(r.input) :
                       r.input[k].type = "function_call_output"
                /\ r.previous_response_id = Some(a_responses[i - 1].id)

\* a chained turn that reached a tool follow-up request after two calls
C4_Witness ==
    /\ a_args.previous_response_id # None
    /\ Len(a_requests) = 2
    /\ Len(a_requests[2].input) = 2

HasCalls(resp) == function_calls(resp.output) # << >>

\* the first response without function calls, if one exists among the first
\* max_iterations responses the model would give
FinalResponseSeen ==
    /\ a_responses # << >>
    /\ ~HasCalls(a_responses[Len(a_responses)])

InTurn(sid) == { t \in Tasks : s_task[t].pc = "turn" /\ s_task[t].sid = sid }

\* C1: turns on the same session are serialised: from get_history to
\* update_history at most one task works on a session, so no second turn
\* reads the history while a first one is in flight.
C1_TurnsSerialised ==
    \A sid \in DOMAIN s_sessions : Cardinality(InTurn(sid)) <= 1

\* the lines of a session's transcript file, none when it does not exist
TranscriptLines(sid) ==
    IF sid \in DOMAIN s_transcript THEN s_transcript[sid] ELSE << >>

\* C2: when turns come one after another, the transcript of a session holds
\* exactly one line per item appended to its history since its creation or
\* last reset, in order, trimmed histories included.
C2_TranscriptHoldsEveryItem ==
    s_serial =>
        \A sid \in DOMAIN s_sessions : TranscriptLines(sid) = s_appended[sid]

\* the lines found in the archives of a session
ArchivedLines(sid) ==
    UNION { Range(s_archives[f]) : f \in { g \in DOMAIN s_archives : g[1] = sid } }

\* C6: after a reset the session's history is empty, its turn_count is 0 and
\* it has no last_response_id, and every line a reset found in the transcript
\* is in an archive of that session: no reset replaces an earlier archive.
C6_ResetArchivesEveryLine ==
    s_serial =>
        /\ \A sid \in DOMAIN s_sessions : s_reset_lines[sid] \subseteq ArchivedLines(sid)
        /\ \A t \in Tasks :
              (/\ s_task[t].command
               /\ s_task[t].pc = "persist_snap"
               /\ s_task[t].sid \in DOMAIN s_sessions)
              => /\ s_sessions[s_task[t].sid].history = << >>
                 /\ s_sessions[s_task[t].sid].meta.turn_count = 0
                 /\ s_sessions[s_task[t].sid].meta.last_response_id = None

\* C7: once every operation has returned, sessions.json holds exactly the
\* metadata of the live sessions, whatever the interleaving was.
C7_JsonMatchesLiveSessions ==
    (s_json # None /\ \A t \in Tasks : s_task[t].pc = "idle")
        => s_json[1] \in MetaMaps(s_sessions)

\* the tasks for which get_or_create has returned an id
Resolved == { t \in Tasks : s_task[t].pc \notin { "idle", "goc_fast", "goc_slow" } }

\* C8: the key index and the session map correspond one to one in every
\* reachable state, and get_or_create calls for the same key, concurrent or
\* not, that returned sessions still live returned the same id.
C8_KeyIndexOneToOne ==
    /\ \A k \in DOMAIN s_key_index :
          /\ s_key_index[k] \in DOMAIN s_sessions
          /\ s_sessions[s_key_index[k]].meta.key = k
    /\ \A id \in DOMAIN s_sessions :
          /\ s_sessions[id].meta.key \in DOMAIN s_key_index
          /\ s_key_index[s_sessions[id].meta.key] = id
          /\ s_sessions[id].meta.session_id = id
    /\ \A t, u \in Resolved :
          (/\ s_task[t].key = s_task[u].key
           /\ s_task[t].sid \in DOMAIN s_sessions
           /\ s_task[u].sid \in DOMAIN s_sessions)
          => s_task[t].sid = s_task[u].sid

\* two get_or_create calls for one key overlap: one has inserted the session
\* while the other, having missed on the fast path, waits for the write locks
C8_Witness ==
    \E t, u \in Tasks :
        /\ t \in Resolved
        /\ s_task[u].pc = "goc_slow"
        /\ s_task[u].key = s_task[t].key
        /\ s_task[t].key \in DOMAIN s_key_index
        /\ s_key_index[s_task[t].key] = s_task[t].sid

\* the task's turn has been applied: update_history is done and the task
\* is saving the metadata before it returns
Applied(t) ==
    /\ s_task[t].pc \in { "persist_snap", "persist_write", "persist_rename" }
    /\ s_task[t].after = "idle"

\* the task's turn has read the history of its session
HasReadHistory(t) == s_task[t].pc = "turn" \/ Applied(t)

\* C16: messages for the same session are processed in the order they were
\* received: when a message was received before another one with the same
\* session key and is still being handled, the turn of the later one reads
\* the history only after the turn of the earlier one has been applied.
C16_ProcessedInReceiveOrder ==
    \A t, u \in Tasks :
        (/\ s_task[t].pc # "idle"
         /\ s_task[u].pc # "idle"
         /\ s_task[t].key = s_task[u].key
         /\ s_task[t].seq < s_task[u].seq
         /\ ~s_task[t].command
         /\ ~s_task[u].command
         /\ HasReadHistory(u))
        => Applied(t)

(***************************************************************************)
(* Claims about the process manager.                                       *)
(***************************************************************************)
\* C9: a backgrounded command is killed by the watchdog once timeout_secs
\* have passed, so the exit status of every background session is eventually
\* set.
C9_ExitStatusEventuallySet ==
    (p_phase = "backgrounded") ~> (p_exit_status # None)

RECURSIVE Concat(_)
\* the slices returned by the polls so far, one after another
Concat(slices) ==
    IF slices = << >> THEN << >> ELSE Head(slices) \o Concat(Tail(slices))

\* C10: the poll cursor never exceeds the buffer length and never decreases,
\* and the slices returned by the successive polls, concatenated, are the
\* prefix of the buffer that ends at the cursor, however polls and reader
\* appends interleave.
C10_PollsReturnPrefix ==
    /\ [](/\ p_cursor <= BufLen(p_buf)
          /\ IsPrefix(Concat(p_polled), p_buf)
          /\ BufLen(Concat(p_polled)) = p_cursor)
    /\ [][p_cursor' >= p_cursor]_vars

\* two polls each returned new output: the readers appended between them
C10_Witness ==
    /\ Len(p_polled) >= 2
    /\ p_polled[1] # << >>
    /\ p_polled[2] # << >>
    /\ p_cursor = BufLen(p_buf)

\* the session is gone from the live map, the command has ended and the
\* reader tasks have consumed all it wrote
SessionRemovedAndDrained ==
    /\ p_phase = "backgrounded"
    /\ ~p_live
    /\ p_child.state = "exited"
    /\ \A stream \in Streams : p_pipe[stream] = << >>
    /\ \A t \in Pollers : p_poller[t] = "idle"

\* C11: for a backgrounded command that exits, the slices returned by the
\* polls of its session together equal everything the reader tasks appended
\* to the buffer: nothing is left unread when the first poll that sees the
\* exit status removes the session.
C11_PollsReturnEverything ==
    SessionRemovedAndDrained => Concat(p_polled) = p_buf

(***************************************************************************)
(* Claims about the cron scheduler.                                        *)
(***************************************************************************)
\* the runs of the log made for the job with this id, in order
RunsOf(id) == SelectSeq(c_log, LAMBDA r : r.id = id)

\* the job with this id as the scheduler first found it
FirstFound(id) == CHOOSE j \in Range(c_file0) : j.id = id

\* the ids of the Cron-scheduled jobs
CronIds == { j.id : j \in { k \in Range(c_file0) : k.schedule.type = "cron" } }

\* every run of a Cron job is for an instant later than the end of each of
\* its earlier runs, so no instant is fired for twice
FiresOncePerInstant ==
    \A id \in CronIds :
        LET runs == RunsOf(id)
        IN \A m \in 1..Len(runs) :
              /\ FirstFound(id).last_run_at # None
                    => runs[m].instant > FirstFound(id).last_run_at[1]
              /\ \A n \in 1..(m - 1) : runs[m].instant > runs[n].finished_at

\* should_fire has just looked at an enabled Cron job that is not backing
\* off, on a tick whose now is one of its scheduled instants
TickAtScheduledInstant ==
    /\ c_eval # None
    /\ c_eval[1].job.schedule.type = "cron"
    /\ ParseCron(c_eval[1].job.schedule.expr) # None
    /\ c_eval[1].now % ParseCron(c_eval[1].job.schedule.expr)[1] = 0
    /\ c_eval[1].job.enabled
    /\ ~BackingOff(c_eval[1].job, c_eval[1].now)

\* C12: for a Cron-scheduled job each scheduled instant causes at most one
\* firing across the ticks, no tick fires for an instant at or before the
\* last_run_at a run has set, and a tick whose now equals a scheduled instant
\* fires the job.
C12_FiresOncePerInstant ==
    /\ FiresOncePerInstant
    /\ TickAtScheduledInstant => c_eval[1].fire

\* the backoff of the k-th consecutive failure, as claimed
ClaimedBackoff(k) ==
    IF k = 1 THEN 30
    ELSE IF k = 2 THEN 60
    ELSE IF k = 3 THEN 5 * 60
    ELSE IF k = 4 THEN 15 * 60
    ELSE 60 * 60

RECURSIVE FailureStreak(_, _, _)
\* the number of consecutive failed runs of a job that end with its m-th
\* logged run, counting the failures recorded before the scheduler started
FailureStreak(id, runs, m) ==
    IF m = 0 THEN FirstFound(id).retry.consecutive_failures
    ELSE IF runs[m].success THEN 0
    ELSE FailureStreak(id, runs, m - 1) + 1

\* the jobs as the scheduler has them between runs: jobs.json while it waits
\* for a tick, updated_jobs inside the loop
JobsNow == IF c_pc = "sleeping" THEN c_file ELSE c_updated

\* the ids of the jobs whose last run has ended and failed
LastRunFailed ==
    { id \in { r.id : r \in Range(c_log) } :
        /\ ~RunsOf(id)[Len(RunsOf(id))].success
        /\ ~(c_pc = "running" /\ c_updated[c_i].id = id) }

AtIds == { j.id : j \in { k \in Range(c_file0) : k.schedule.type = "at" } }

\* C14: an enabled At{datetime} job that is not backing off fires on a tick
\* exactly when the tick's now >= datetime and the job has no last_run_at:
\* on the first such tick, never on a tick before datetime, and never once
\* last_run_at is set.
C14_OneShotFiresWhenDue ==
    /\ (/\ c_eval # None
        /\ c_eval[1].job.schedule.type = "at"
        /\ c_eval[1].job.enabled
        /\ ~BackingOff(c_eval[1].job, c_eval[1].now))
          => (c_eval[1].fire <=>
                (/\ c_eval[1].now >= c_eval[1].job.schedule.datetime
                 /\ c_eval[1].job.last_run_at = None))
    /\ \A id \in AtIds :
          /\ Len(RunsOf(id)) <= 1
          /\ \A m \in 1..Len(RunsOf(id)) :
                /\ RunsOf(id)[m].now >= FirstFound(id).schedule.datetime
                /\ FirstFound(id).last_run_at = None

\* a one-shot job whose time lies between the second and the third tick was
\* passed over by the second tick and has fired on the third
C14_Witness ==
    \E id \in AtIds :
        /\ FirstFound(id).schedule.datetime = CronStart + TickSecs + 5
        /\ Len(RunsOf(id)) = 1
        /\ RunsOf(id)[1].now = CronStart + (2 * TickSecs)

\* the ids of the jobs whose last run has ended with success
LastRunSucceeded ==
    { id \in { r.id : r \in Range(c_log) } :
        /\ RunsOf(id)[Len(RunsOf(id))].success
        /\ ~(c_pc = "running" /\ c_updated[c_i].id = id) }

\* the one-shot jobs that are removed once they have run with success
RemovedOnSuccess == { id \in AtIds : ~FirstFound(id).keep_after_run }

\* C15: after a successful run the job has consecutive_failures 0, no
\* retry_after and last_run_at set; once the tick is over a one-shot job with
\* keep_after_run = false is absent from jobs.json, and one with
\* keep_after_run = true is in jobs.json and never fires again.
C15_SuccessClearsRetry ==
    /\ \A id \in LastRunSucceeded :
          LET runs == RunsOf(id)
              kept == \E n \in 1..Len(JobsNow) :
                         /\ JobsNow[n].id = id
                         /\ JobsNow[n].retry = DefaultRetry
                         /\ JobsNow[n].last_run_at = Some(runs[Len(runs)].finished_at)
              tick_over == c_pc = "sleeping" \/ runs[Len(runs)].tick < c_ticks
          IN IF tick_over /\ id \in RemovedOnSuccess
             THEN /\ \A n \in 1..Len(c_file) : c_file[n].id # id
                  /\ \A n \in 1..Len(JobsNow) : JobsNow[n].id # id
             ELSE kept
    /\ \A id \in AtIds : Len(RunsOf(id)) <= 1
    /\ (/\ c_eval # None
        /\ c_eval[1].job.schedule.type = "at"
        /\ c_eval[1].job.last_run_at # None) => ~c_eval[1].fire

\* a one-shot job that is not kept has run with success and is gone from the
\* saved jobs.json, which still holds the other job
C15_Witness ==
    /\ c_pc = "sleeping"
    /\ \E id \in LastRunSucceeded \cap RemovedOnSuccess :
          /\ Len(c_file0) = 2
          /\ Len(c_file) = 1
          /\ c_file[1].id # id

(***************************************************************************)
(* Claims about tool execution inside a turn.                              *)
(***************************************************************************)
\* the call ids of the function_call items of a response output, by position
OutputCallIds(output) ==
    LET ps == SelectSeq([p \in 1..Len(output) |-> p],
                        LAMBDA p : output[p].kind = "function_call")
    IN [j \in 1..Len(ps) |-> output[ps[j]].call_id]

FunctionCallOutputsOf(history) ==
    SelectSeq(history, LAMBDA it : it.type = "function_call_output")

\* C17: the function calls of one response are executed in the order in which
\* they appear in the response; their FunctionCallOutputs are appended to the
\* history and sent as the next input in that same order, one per call and
\* with the call's call_id.
C17_CallsExecutedInOrder ==
    /\ \A i \in 1..Len(a_produced) :
          LET calls == OutputCallIds(a_responses[i].output)
              outs  == a_produced[i]
          IN /\ Len(outs) <= Len(calls)
             /\ \A j \in 1..Len(outs) :
                   /\ outs[j].type = "function_call_output"
                   /\ outs[j].call_id = calls[j]
             /\ (i < Len(a_produced) \/ a_pc # "tools") => Len(outs) = Len(calls)
             /\ i < Len(a_requests) => a_requests[i + 1].input = outs
    /\ ~(a_pc = "done" /\ a_result = "ok") =>
          FunctionCallOutputsOf(a_history)
             = FunctionCallOutputsOf(a_args.history) \o Concat(a_produced)

\* a response with two function calls whose two outputs went out as the next
\* request's input
C17_Witness ==
    /\ Len(a_requests) = 2
    /\ Len(a_produced) = 1
    /\ Len(a_produced[1]) = 2
    /\ a_produced[1][1].call_id # a_produced[1][2].call_id
    /\ a_requests[2].input = a_produced[1]

\* the raw texts a tool result or an execute_tool error carries
RawTexts == { ResultOutput } \cup { ErrorDisplay(o) : o \in ToolOutcomes }

HasErrorPrefix(text) == \E rest \in RawTexts : text = "[ERROR] " \o rest

\* the index of the response that asked for the call
ResponseOfCall(cid) ==
    CHOOSE i \in 1..Len(a_responses) :
        \E p \in 1..Len(a_responses[i].output) :
            /\ a_responses[i].output[p].kind = "function_call"
            /\ a_responses[i].output[p].call_id = cid

FailedOutcomes == { "is_error", "err" }

\* the turn is over although the calls of its last response were all answered
EndedAfterTools ==
    /\ a_pc = "done"
    /\ a_responses # << >>
    /\ a_responses[Len(a_responses)].status = "completed"
    /\ HasCalls(a_responses[Len(a_responses)])
    /\ Len(a_requests) = Len(a_responses)

\* C18: a tool result flagged is_error, or an execution that returns an
\* error, does not abort the turn: one FunctionCallOutput with the call's
\* call_id and the error text behind "[ERROR] " goes into the history and
\* into the next request's input, and the loop goes on to its next iteration.
C18_ToolErrorsReported ==
    /\ \A k \in 1..Len(a_outcomes) :
          a_outcomes[k].outcome \in FailedOutcomes =>
             LET cid == a_outcomes[k].call_id
                 i   == ResponseOfCall(cid)
                 outs == SelectSeq(a_produced[i], LAMBDA it : it.call_id = cid)
             IN /\ Len(outs) = 1
                /\ outs[1].type = "function_call_output"
                /\ HasErrorPrefix(outs[1].text)
                /\ outs[1].text = "[ERROR] " \o
                      (IF a_outcomes[k].outcome = "is_error"
                       THEN ResultOutput ELSE ErrorDisplay("err"))
                /\ ~(a_pc = "done" /\ a_result = "ok") =>
                      \E h \in 1..Len(a_history) : a_history[h] = outs[1]
                /\ Len(a_requests) > i =>
                      \E h \in 1..Len(a_requests[i + 1].input) :
                          a_requests[i + 1].input[h] = outs[1]
    /\ EndedAfterTools =>
          /\ a_result = "exceeded"
          /\ a_iteration >= a_cfg.max_iterations

\* a turn that answered after one call was flagged is_error and another's
\* execution returned an error
C18_Witness ==
    /\ a_pc = "done"
    /\ a_result = "ok"
    /\ Len(a_requests) = 2
    /\ Len(a_outcomes) = 2
    /\ a_outcomes[1].outcome = "is_error"
    /\ a_outcomes[2].outcome = "err"

\* C19: a function call that names a tool the registry does not have aborts
\* the turn: no request is sent after the response that asked for it, and the
\* turn does not return Ok with a history.
C19_UnknownToolAborts ==
    \A k \in 1..Len(a_outcomes) :
        a_outcomes[k].outcome = "unknown_tool" =>
           /\ Len(a_requests) <= ResponseOfCall(a_outcomes[k].call_id)
           /\ a_result # "ok"

\* the call ids of the items of the given type in a history
CallIdsOf(history, type) ==
    { history[h].call_id : h \in { g \in 1..Len(history) : history[g].type = type } }

\* C20: in every history a successful turn returns, each call_id has both its
\* FunctionCall and its FunctionCallOutput or neither of them, whatever
\* max_history is and whatever the history was before trimming.
C20_TrimKeepsCallPairs ==
    (a_pc = "done" /\ a_result = "ok") =>
        CallIdsOf(a_history, "function_call")
           = CallIdsOf(a_history, "function_call_output")

(***************************************************************************)
(* Claims about reasoning items and response chaining.                     *)
(***************************************************************************)
NoOpaqueItems(items) ==
    \A i \in 1..Len(items) : items[i].type \notin { "reasoning", "other" }

\* C23: the history a successful turn returns, and the lines update_history
\* writes to the transcript from it, hold no Reasoning or Other item; the
\* response id the turn returns for the session's last_response_id is the id
\* of its final model response, so that the next turn's first request
\* carries only the new user message.
C23_ReasoningNeverStored ==
    (a_pc = "done" /\ a_result = "ok") =>
        /\ NoOpaqueItems(a_history)
        /\ NoOpaqueItems(NewItems(a_args.history, a_history))
        /\ a_prev = Some(a_responses[Len(a_responses)].id)
        /\ BuildInput(0, a_prev, Append(a_history, user_item), << >>)
              = << user_item >>

\* a successful turn on a history that held a reasoning item, whose final
\* response carried a reasoning item as well
C23_Witness ==
    /\ a_pc = "done"
    /\ a_result = "ok"
    /\ ~NoOpaqueItems(a_args.history)
    /\ \E p \in 1..Len(a_responses[Len(a_responses)].output) :
           a_responses[Len(a_responses)].output[p].kind = "reasoning"

(***************************************************************************)
(* Claims about resets of a session.                                       *)
(***************************************************************************)
\* the items turns have appended to the session since its last reset
SinceReset(sid) == Range(s_appended[sid])

\* a task is inside reset() for the session: it has cleared the session and
\* is saving the metadata before reset returns
ResetInProgress(sid) ==
    \E u \in Tasks :
        /\ s_task[u].sid = sid
        /\ s_task[u].pc \in { "reset", "persist_snap", "persist_write", "persist_rename" }
        /\ (s_task[u].command \/ s_task[u].after = "get_history")

\* C30: once a reset of a session has cleared it, no history item from before
\* the reset is in the session's in-memory history or in its current
\* transcript again, and a turn that read the history before the reset does
\* not set last_response_id when it calls update_history after the reset has
\* returned.
C30_ResetIsFinal ==
    \A sid \in DOMAIN s_sessions :
        /\ Range(s_sessions[sid].history) \subseteq SinceReset(sid)
        /\ Range(TranscriptLines(sid)) \subseteq SinceReset(sid)
        /\ \A t \in Tasks :
              (/\ Applied(t)
               /\ s_task[t].sid = sid
               /\ s_task[t].stale
               /\ ~ResetInProgress(sid))
              => s_sessions[sid].meta.last_response_id = None

(***************************************************************************)
(* Claims about the persisted session metadata.                            *)
(***************************************************************************)
\* sessions.json is replaced by a snapshot in which no session that is in
\* both has a smaller turn_count or an earlier updated_at
SnapshotStepMonotonic ==
    (s_json # None /\ s_json' # None) =>
        \A k \in DOMAIN s_json[1] \cap DOMAIN s_json'[1] :
            s_json[1][k].session_id = s_json'[1][k].session_id =>
               /\ s_json'[1][k].turn_count >= s_json[1][k].turn_count
               /\ s_json'[1][k].updated_at >= s_json[1][k].updated_at

\* update_history, applied by some task, adds exactly 1 to turn_count
UpdateStepCountsOne ==
    \A t \in Tasks :
        (/\ s_task[t].pc = "turn"
         /\ s_task'[t].pc = "persist_snap"
         /\ s_task[t].sid \in DOMAIN s_sessions)
        => s_sessions'[s_task[t].sid].meta.turn_count
              = s_sessions[s_task[t].sid].meta.turn_count + 1

\* C29: for every session, turn_count and updated_at never decrease from one
\* persisted snapshot to the next, across any sequence of update_history and
\* reset operations, and each successful update_history increases turn_count
\* by exactly 1.
C29_SnapshotsMonotonic ==
    [][SnapshotStepMonotonic /\ UpdateStepCountsOne]_vars

(***************************************************************************)
(* Claims about the reset policy, restarts and HTTP routing, for messages  *)
(* handled one at a time.                                                  *)
(***************************************************************************)
\* the task leaves reset(): the session is cleared and the lock released
ResetStep(t) ==
    /\ s_task[t].pc = "reset"
    /\ s_task'[t].pc = "persist_snap"

\* the session is as a reset at the present instant leaves it
FreshlyReset(sid) ==
    /\ sid \in DOMAIN s_sessions
    /\ sid \notin DOMAIN s_transcript
    /\ s_sessions[sid].history = << >>
    /\ s_sessions[sid].meta.turn_count = 0
    /\ s_sessions[sid].meta.last_response_id = None
    /\ s_sessions[sid].meta.updated_at = s_clock

\* a reset of a freshly reset session changes nothing
SecondResetChangesNothing ==
    \A t \in Tasks :
        (ResetStep(t) /\ FreshlyReset(s_task[t].sid)) =>
            /\ s_sessions' = s_sessions
            /\ s_transcript' = s_transcript
            /\ s_archives' = s_archives

\* check_reset, called at the instant reset has finished, finds no policy
\* triggered
NoResetRightAfterReset ==
    \A t \in Tasks :
        ResetStep(t) => ~should_reset(s_sessions'[s_task[t].sid].meta, s_clock')

\* an idle policy with a limit of 0 minutes
IdleLimitZero ==
    /\ s_cfg.reset_mode \in { "idle", "both" }
    /\ s_cfg.idle_minutes = Some(0)

\* C21 as stated: reset followed immediately by reset leaves the session as a
\* single reset does, and check_reset called immediately after reset returns
\* false without resetting, for every reset_mode, reset_at_hour and
\* idle_minutes.
C21_ResetIdempotent ==
    [][SecondResetChangesNothing /\ NoResetRightAfterReset]_vars

\* C21, amended: reset followed immediately by reset leaves the session as a
\* single reset does for every policy; check_reset called immediately after
\* reset returns false without resetting for every reset_mode and
\* reset_at_hour and every idle limit other than 0 minutes.
C21_ResetIdempotentUnlessIdleZero ==
    [][/\ SecondResetChangesNothing
       /\ ~IdleLimitZero => NoResetRightAfterReset]_vars

\* a /reset is about to run on a session that a reset has cleared at this
\* very instant, some time after the session was created
C21_Witness ==
    \E t \in Tasks :
        /\ s_task[t].pc = "reset"
        /\ s_task[t].command
        /\ FreshlyReset(s_task[t].sid)
        /\ s_sessions[s_task[t].sid].meta.created_at < s_clock
        /\ ~IdleLimitZero

\* the policy of the configuration, in seconds
DailyPolicy(updated_at, now) ==
    /\ LocalDate(now) > LocalDate(updated_at)
    /\ LocalHour(now) >= s_cfg.reset_at_hour

IdlePolicy(updated_at, now) ==
    /\ s_cfg.idle_minutes # None
    /\ now - updated_at >= 60 * s_cfg.idle_minutes[1]

PolicyTriggers(updated_at, now) ==
    CASE s_cfg.reset_mode = "daily" -> DailyPolicy(updated_at, now)
      [] s_cfg.reset_mode = "idle"  -> IdlePolicy(updated_at, now)
      [] OTHER -> DailyPolicy(updated_at, now) \/ IdlePolicy(updated_at, now)

\* check_reset decides for a session that exists
CheckStep(t) ==
    /\ s_task[t].pc = "check_reset"
    /\ s_task'[t].pc # "check_reset"
    /\ s_task[t].sid \in DOMAIN s_sessions

\* the reset that check_reset calls
ResetByCheck(t) ==
    /\ ResetStep(t)
    /\ s_task[t].after = "get_history"
    /\ s_task[t].sid \in DOMAIN s_sessions

C24_RestartReplaysHistory ==
    \A t \in Tasks :
        (/\ s_task[t].pc = "turn"
         /\ s_boot_turn # None
         /\ s_task[t].prev # None)
        => s_task[t].prev[1] > s_boot_turn[1]

\* C25: an HTTP message sent without a session_id is handled in the session
\* whose key is neko:http:dm:<sender_id>, or neko:http:dm:http-default when
\* no sender id is given, for every dm_scope.
C25_HttpKey ==
    \A t \in Tasks :
        (s_task[t].pc # "idle" /\ s_task[t].channel = "http") =>
            /\ s_task[t].key =
                  "neko:http:dm:" \o (IF s_task[t].sender_id # None
                                      THEN s_task[t].sender_id[1]
                                      ELSE "http-default")
            /\ s_task[t].sid \in DOMAIN s_sessions =>
                  s_sessions[s_task[t].sid].meta.key = s_task[t].key

(***************************************************************************)
(* Claims about killing a background session.                              *)
(***************************************************************************)
\* C26: the kill action on a running background session terminates the child
\* and completes, also when the child would never exit by itself: a kill
\* that has found the session of a running child returns.
C26_KillCompletes ==
    \A t \in Pollers :
        (p_poller[t] = "kill_lock" /\ p_child.state = "running")
            ~> (p_poller[t] # "kill_lock")

(***************************************************************************)
(* Claims about the file tools.                                            *)
(***************************************************************************)
\* C27: in read_file, write_file, list_files, cd and send_file every file
\* read, file write and directory creation targets a path under the
\* canonical workspace, and a call that answers "Path is outside workspace
\* boundary" has read, written and created nothing.
C27_ConfinedToWorkspace ==
    /\ \A e \in f_last.touched : starts_with(e.path, workspace_canonical[1])
    /\ f_last.result = "outside" => f_last.touched = {}

(***************************************************************************)
(* Claims about the JSON form of items.                                    *)
(***************************************************************************)
\* the item read back is the item that was written
ReadBackSame ==
    /\ j_back[1].ok
    /\ j_back[1].item = j_item

\* the type tag of the value an opaque item holds
TagOf(item) == str_field(item.value, "type")

StructuredTags == { "message", "function_call", "function_call_output" }

\* an opaque item whose value carries the tag of its own variant
TagFitsVariant(item) ==
    \/ item.variant \notin { "Reasoning", "Other" }
    \/ item.variant = "Reasoning" /\ TagOf(item) = "reasoning"
    \/ item.variant = "Other" /\ TagOf(item) \notin StructuredTags \cup { "reasoning" }

C38_BufferWithinCap ==
    BufLen(p_buf) <= MAX_OUTPUT_BYTES

(***************************************************************************)
(* Claims about should_fire and what a tick leaves in jobs.json.            *)
(***************************************************************************)
\* the job the scheduler has decided to run is being run
FiringNow == c_pc = "running"

\* C39: a job is never fired on a tick while it is disabled, nor while its
\* retry_after is later than that tick's now, whatever its schedule and
\* last_run_at.
C39_NeverFiredDisabledOrBackingOff ==
    /\ FiringNow =>
          /\ c_updated[c_i].enabled
          /\ \/ c_updated[c_i].retry.retry_after = None
             \/ c_updated[c_i].retry.retry_after[1] <= c_tick_now
    /\ (c_eval # None /\ c_eval[1].fire) =>
          /\ c_eval[1].job.enabled
          /\ \/ c_eval[1].job.retry.retry_after = None
             \/ c_eval[1].job.retry.retry_after[1] <= c_eval[1].now

\* after a failed run, a job whose retry_after has been reached is fired
C39_Witness ==
    /\ FiringNow
    /\ c_updated[c_i].retry.retry_after # None
    /\ \E e \in Range(c_log) : ~e.success

\* the latest instant of a schedule of the given period that is <= now
LatestAtOrBefore(period, now) == period * (now \div period)

\* what the rule asks of a Cron job that is enabled and not backing off
FiresForLatestInWindow(job, now) ==
    LET latest == LatestAtOrBefore(ParseCron(job.schedule.expr)[1], now)
    IN /\ latest >= now - WindowSecs
       /\ \/ job.last_run_at = None
          \/ latest > job.last_run_at[1]

\* C34: for a Cron job that is enabled and not backing off, should_fire(job,
\* now) is true exactly when the latest scheduled instant inside
\* [now - 16 s, now] exists and is strictly after last_run_at (or last_run_at
\* is absent), for every schedule, schedules with several instants inside
\* the window included.
C34_FiresIffLatestInstantIsNew ==
    (/\ c_eval # None
     /\ c_eval[1].job.schedule.type = "cron"
     /\ ParseCron(c_eval[1].job.schedule.expr) # None
     /\ c_eval[1].job.enabled
     /\ ~BackingOff(c_eval[1].job, c_eval[1].now))
    => (c_eval[1].fire <=> FiresForLatestInWindow(c_eval[1].job, c_eval[1].now))

\* no job has been run in the tick in progress
NoRunInTick == \A e \in Range(c_log) : e.tick # c_ticks

\* C35: a scheduler tick in which no job fires leaves jobs.json unchanged:
\* no job is modified or removed and the file is not rewritten, whatever
\* jobs it contains.
C35_IdleTickKeepsFile ==
    [][(c_pc = "loop" /\ c_pc' = "sleeping" /\ NoRunInTick) => c_file' = c_file]_vars

\* the runs of a job in the log
RunsOfJob(id) == { i \in 1..Len(c_log) : c_log[i].id = id }

\* C36: a one-shot At job fires at most once in its lifetime whatever the
\* outcome: after a failed run has set last_run_at the job is never fired
\* again, even after retry_after has passed, and it stays enabled in
\* jobs.json.
C36_OneShotFiresOnce ==
    \A j \in Range(c_file0) :
        j.schedule.type = "at" =>
            /\ Cardinality(RunsOfJob(j.id)) <= 1
            /\ j.last_run_at # None => RunsOfJob(j.id) = {}
            /\ (c_pc = "sleeping" /\ \E i \in RunsOfJob(j.id) : ~c_log[i].success) =>
                  \E k \in Range(c_file) :
                      /\ k.id = j.id
                      /\ k.enabled
                      /\ k.last_run_at # None

\* a one-shot job that failed on an earlier tick is looked at again once its
\* retry_after has passed, and is not fired
C36_Witness ==
    /\ c_eval # None
    /\ c_eval[1].job.schedule.type = "at"
    /\ \E i \in RunsOfJob(c_eval[1].job.id) :
          ~c_log[i].success /\ c_log[i].tick < c_ticks
    /\ c_eval[1].job.retry.retry_after # None
    /\ c_eval[1].job.retry.retry_after[1] <= c_eval[1].now
    /\ ~c_eval[1].fire

(***************************************************************************)
(* Claims about the scheduler next to a writer and with long runs.          *)
(***************************************************************************)
\* C32: a job written to jobs.json by cron_manage while the scheduler is
\* running is not lost: it is still present in jobs.json after every later
\* scheduler tick, a tick that loaded the job list before the write and
\* saves its list after running a job included.
C32_AddedJobIsKept ==
    \A id \in c_added : \E k \in Range(c_file) : k.id = id

\* the minute boundaries of a run
MinuteBoundaries == { CronStart, CronStart + 60 }

\* an every-minute job that was enabled and not backing off at the start and
\* has not failed since
SteadyMinuteJob(j) ==
    /\ j.schedule = CronSchedule("0 * * * * *")
    /\ j.enabled
    /\ j.retry = DefaultRetry
    /\ \A i \in RunsOfJob(j.id) : c_log[i].success

\* C33: an enabled Cron job that is not backing off is fired for every
\* scheduled minute boundary: once a tick has taken place at or after the
\* boundary, the job has been run for it, whatever the duration of the agent
\* runs inside a tick.
C33_NoMinuteSkipped ==
    \A j \in Range(c_file0), m \in MinuteBoundaries :
        (/\ SteadyMinuteJob(j)
         /\ c_pc = "sleeping"
         /\ c_eval # None
         /\ c_eval[1].now >= m)
        => \E i \in RunsOfJob(j.id) : c_log[i].instant = m

(***************************************************************************)
(* Claims about the working directory of a turn.                           *)
(***************************************************************************)
\* the cwd is a directory inside the workspace
CwdInsideWorkspace ==
    /\ f_cwd \in DOMAIN f_fs
    /\ f_fs[f_cwd].kind = "dir"
    /\ starts_with(f_cwd, workspace_canonical[1])

\* a step changes the cwd only by a successful cd or by the start of a turn,
\* which puts it back at the workspace root
CwdChangedOnlyByCd ==
    f_cwd' # f_cwd =>
        \/ f_last'.tool = "cd" /\ f_last'.result = "ok"
        \/ f_last' = NoCall /\ f_cwd' = WorkspaceDir

\* C40: within a turn the shared cwd always denotes a directory inside the
\* workspace: it starts at the workspace root at the beginning of every
\* turn, only a successful cd call changes it, and a cd call that fails
\* leaves it unchanged.
C40_CwdStaysInWorkspace ==
    /\ [](CwdInsideWorkspace /\ (f_last = NoCall => f_cwd = WorkspaceDir))
    /\ [][CwdChangedOnlyByCd]_vars

\* after a cd into a subdirectory, a cd that leads out of the workspace
\* through a symbolic link has failed
C40_Witness ==
    /\ f_cwd = << "/", "ws", "sub" >>
    /\ f_last.tool = "cd"
    /\ f_last.result = "outside"
    /\ f_last.path = << "/", "out", "secret" >>

(***************************************************************************)
(* Claims about a failed agent turn.                                       *)
(***************************************************************************)
\* the task t leaves its turn without a turn having completed
FailedTurn(t) ==
    /\ s_task[t].pc = "turn"
    /\ s_task'[t].pc = "idle"
    /\ s_turn_no' = s_turn_no

\* the session of task t is as the turn read it
AsTheTurnReadIt(t) ==
    LET sid == s_task[t].sid
    IN sid \in DOMAIN s_sessions =>
          /\ s_sessions[sid].history = s_task[t].history
          /\ s_sessions[sid].meta.last_response_id = s_task[t].prev

\* C37: if the agent turn fails, the gateway does not call update_history:
\* the session's history, turn count, token totals, last response id,
\* transcript file and sessions.json are exactly as they were when the turn
\* read the history.
C37_FailedTurnLeavesSession ==
    /\ [][\A t \in Tasks : FailedTurn(t) =>
             UNCHANGED << s_sessions, s_key_index, s_transcript, s_archives,
                          s_json, s_tmp >>]_vars
    /\ [](\A t \in Tasks : s_task[t].pc = "turn" => AsTheTurnReadIt(t))

\* a turn is running on a session that has a history, a turn count and a
\* stored response id from an earlier turn
C37_Witness ==
    /\ s_task[1].pc = "turn"
    /\ s_task[1].history # << >>
    /\ s_task[1].prev # None
    /\ s_task[1].sid \in DOMAIN s_sessions
    /\ s_sessions[s_task[1].sid].meta.turn_count > 0

(***************************************************************************)
(* Claims about the locks of the session store.                            *)
(***************************************************************************)
\* C31: no interleaving of concurrent SessionStore operations deadlocks:
\* under fair scheduling every operation that was called eventually acquires
\* the locks it asks for and returns.
C31_EveryOperationReturns ==
    \A t \in LockTasks : (l_task[t].pc # "idle") ~> (l_task[t].pc = "idle")

\* a task holds the read lock of sessions and waits for the mutex of a
\* session that another task holds
C31_Witness ==
    \E t, u \in LockTasks :
        /\ t # u
        /\ l_lock["sessions"].readers[t] > 0
        /\ l_lock["sessions"].readers[u] > 0
        /\ \E s \in LockSessions :
              /\ l_lock[s].writer = u
              /\ l_lock[s].queue # << >>
              /\ Head(l_lock[s].queue).t = t

====
